---- MODULE Spec2Model ----
(***************************************************************************)
(* A model of the MCP filesystem server (mcp_plain_flask_app.py) and of    *)
(* the OpenAI bridge that drives it (mcp_openai_bridge.py).                *)
(*                                                                         *)
(* Python strings are modelled as sequences of tokens: the token "/" is    *)
(* the path separator, every other token is a piece of text that holds no  *)
(* separator.  Concatenation of strings is concatenation of sequences.     *)
(* A canonical absolute path is the sequence of its components, so the     *)
(* filesystem root "/" is the empty sequence.                              *)
(***************************************************************************)
EXTENDS Integers, Sequences, FiniteSets, TLC

VARIABLES
    fs,         \* the host filesystem: existing canonical path -> node
    fs_before,  \* the filesystem when mcp_endpoint began to serve req
    req,        \* the request body mcp_endpoint is serving (or served last)
    resp,       \* the response mcp_endpoint returned for it
    acc,        \* the canonical paths the handler of req touched after resolving
    raised,     \* the exception class that left the try block of mcp_endpoint
    user_path,  \* the argument of the safe_join_under_base call under study
    joined,     \* what that call returned or raised
    peer,       \* the server behind MCP_URL
    oracle,     \* the behaviour of the chat-completion oracle
    pc,         \* where run_chat stands
    tools,      \* run_chat: the catalog in the oracle's function format
    messages,   \* run_chat: the conversation log
    round,      \* run_chat: completed iterations of `for _ in range(8)`
    calls,      \* run_chat: tool_calls of the oracle response being served
    idx,        \* run_chat: position in calls of the call being served
    oracle_calls, \* number of chat-completion requests made
    invoked,    \* number of callTool requests made
    sent,       \* the requests run_chat sent to MCP_URL, in order
    reply,      \* the HTTP response to the request sent last
    outcome,    \* how run_chat ended: its return value or its exception
    result_parts, \* the content parts of one tool result
    derived,    \* the tool-message content derived from result_parts
    deleters    \* the delete_path calls being handled concurrently, by thread

serverVars == <<fs, fs_before, req, resp, acc, raised>>
resolveVars == <<user_path, joined>>
chatVars == <<peer, oracle, pc, tools, messages, round, calls, idx, oracle_calls, invoked,
              sent, reply, outcome>>
deriveVars == <<result_parts, derived>>
raceVars == <<deleters>>

vars == <<serverVars, resolveVars, chatVars, deriveVars, raceVars>>

(***************************************************************************)
(* Bounds of the model.                                                    *)
(***************************************************************************)
MaxPathLen == 7     \* tokens in a path string handed to safe_join_under_base
MaxText == 1        \* tokens in the content of one file

(***************************************************************************)
(* Strings and pure paths (pathlib.PurePosixPath).                         *)
(***************************************************************************)
Sep == "/"

RECURSIVE Split(_)
\* str.split("/"): the pieces between separators, "" for an empty piece.
Split(s) ==
    IF s = <<>> THEN <<"">>
    ELSE IF Head(s) = Sep THEN <<"">> \o Split(Tail(s))
    ELSE LET r == Split(Tail(s)) IN <<Head(s) \o Head(r)>> \o Tail(r)

RECURSIVE LeadingSeps(_)
LeadingSeps(s) ==
    IF s # <<>> /\ Head(s) = Sep THEN 1 + LeadingSeps(Tail(s)) ELSE 0

RECURSIVE lstrip(_)
\* str.lstrip("/")
lstrip(s) == IF s # <<>> /\ Head(s) = Sep THEN lstrip(Tail(s)) ELSE s

\* Path(s): POSIX parsing.  Exactly two leading slashes are kept as the root
\* "//"; empty and "." components are dropped; ".." components are kept.
Path(s) ==
    [root  |-> CASE LeadingSeps(s) = 0 -> ""
                 [] LeadingSeps(s) = 2 -> "//"
                 [] OTHER -> "/",
     parts |-> SelectSeq(Split(s), LAMBDA x : x # "" /\ x # ".")]

is_absolute(p) == p.root # ""

RECURSIVE JoinParts(_)
JoinParts(parts) ==
    IF parts = <<>> THEN <<>>
    ELSE IF Len(parts) = 1 THEN <<parts[1]>>
    ELSE <<parts[1], Sep>> \o JoinParts(Tail(parts))

\* p.as_posix(): the string form of a pure path.
as_posix(p) ==
    LET r == CASE p.root = "" -> <<>>
               [] p.root = "/" -> <<Sep>>
               [] OTHER -> <<Sep, Sep>>
    IN  IF p.root = "" /\ p.parts = <<>> THEN <<".">> ELSE r \o JoinParts(p.parts)

\* a / b: an absolute right operand replaces the left one.
Join(a, b) == IF is_absolute(b) THEN b ELSE [root |-> a.root, parts |-> a.parts \o b.parts]

BASE_DIR == <<"home", "dell", "mcp-sandbox">>

BasePath == [root |-> "/", parts |-> BASE_DIR]

IsPrefix(a, b) == Len(a) <= Len(b) /\ SubSeq(b, 1, Len(a)) = a

\* BASE_DIR in full.parents
InParents(base, full) == Len(base) < Len(full) /\ IsPrefix(base, full)

Parent(p) == IF p = <<>> THEN <<>> ELSE SubSeq(p, 1, Len(p) - 1)

Name(p) == IF p = <<>> THEN "" ELSE p[Len(p)]

(***************************************************************************)
(* The filesystem.  A node is a directory, a regular file with its text,   *)
(* or a symbolic link with the canonical path it points to.                *)
(***************************************************************************)
DirNode == [kind |-> "dir"]
FileNode(t) == [kind |-> "file", text |-> t]
LinkNode(target) == [kind |-> "link", target |-> target]

exists(f, p) == p \in DOMAIN f
is_dir(f, p) == p \in DOMAIN f /\ f[p].kind = "dir"
is_file(f, p) == p \in DOMAIN f /\ f[p].kind = "file"
is_link(f, p) == p \in DOMAIN f /\ f[p].kind = "link"

Children(f, p) == {q \in DOMAIN f : q # <<>> /\ Parent(q) = p}
Subtree(f, p) == {q \in DOMAIN f : InParents(p, q)}

RECURSIVE realpath(_, _, _)
\* os.path.realpath, non-strict: components are taken left to right, ".."
\* steps to the parent of what has been resolved so far (the root is its
\* own parent) and a component that is a symbolic link is replaced by its
\* target.
realpath(f, done, rest) ==
    IF rest = <<>> THEN done
    ELSE IF Head(rest) = ".." THEN realpath(f, Parent(done), Tail(rest))
    ELSE LET next == Append(done, Head(rest))
         IN  IF is_link(f, next) THEN realpath(f, f[next].target, Tail(rest))
             ELSE realpath(f, next, Tail(rest))

\* Path.resolve() of an absolute path.
resolve(f, p) == realpath(f, <<>>, p.parts)

Raise(e, m) == [exc |-> e, msg |-> m]

\* Lines 86-88: an absolute user path is taken relative to the sandbox root.
strip_root(p) == IF is_absolute(p) THEN Path(lstrip(as_posix(p))) ELSE p

\* No containment check: every resolved path is returned.
check_skipped(full) == [exc |-> "none", path |-> full]

\* Lines 90-92: the resolved path is returned only if it is the sandbox
\* root or below it.
check_under_base(full) ==
    IF ~InParents(BASE_DIR, full) /\ full # BASE_DIR
    THEN Raise("PermissionError", <<"Path outside sandbox">>)
    ELSE [exc |-> "none", path |-> full]

\* safe_join_under_base(user_path): the canonical path, or PermissionError.
safe_join_under_base(f, s) ==
    check_under_base(resolve(f, Join(BasePath, strip_root(Path(s)))))

(***************************************************************************)
(* JSON values, as json.loads / flask's get_json produce them.             *)
(***************************************************************************)
JNull == [t |-> "null"]
JBool(b) == [b |-> b, t |-> "bool"]
JNum(n) == [n |-> n, t |-> "num"]
JStr(s) == [s |-> s, t |-> "str"]
JList(l) == [l |-> l, t |-> "list"]
JObj(o) == [o |-> o, t |-> "obj"]

Empty == <<>>          \* the empty dict {} (a function with no key)

\* Python truthiness: bool(v), `v or d`, `not v`.
Truthy(v) ==
    CASE v.t = "null" -> FALSE
      [] v.t = "bool" -> v.b
      [] v.t = "num"  -> v.n # 0
      [] v.t = "str"  -> v.s # <<>>
      [] v.t = "list" -> v.l # <<>>
      [] v.t = "obj"  -> DOMAIN v.o # {}

\* v or {}
OrEmpty(v) == IF Truthy(v) THEN v ELSE JObj(Empty)

\* d.get(k, default) on a dict d
Get(o, k, default) == IF k \in DOMAIN o THEN o[k] ELSE default

\* str(v)
PyStr(v) ==
    CASE v.t = "str"  -> v.s
      [] v.t = "null" -> <<"None">>
      [] v.t = "bool" -> IF v.b THEN <<"True">> ELSE <<"False">>
      [] v.t = "num"  -> <<ToString(v.n)>>
      [] v.t = "list" -> <<"[..]">>
      [] v.t = "obj"  -> <<"{..}">>

(***************************************************************************)
(* Filesystem primitives (pathlib.Path methods on a canonical path).  Each *)
(* returns the exception it raises ("none" when it returns), the resulting *)
(* filesystem and the set of paths it created, changed, removed or read.   *)
(***************************************************************************)
FsOk(f, touched) == [exc |-> "none", msg |-> <<>>, fs |-> f, acc |-> touched]
FsErr(e, m, f, touched) == [exc |-> e, msg |-> m, fs |-> f, acc |-> touched]

Prefixes(p) == {SubSeq(p, 1, n) : n \in 0..Len(p)}

\* The error of walking to p through its ancestors: a missing ancestor is
\* ENOENT, an ancestor that is no directory is ENOTDIR.
LookupErr(f, p) ==
    LET bad == {q \in Prefixes(p) : q # p /\ ~is_dir(f, q)}
    IN  IF bad = {} THEN "none"
        ELSE LET q == CHOOSE q \in bad : \A r \in bad : Len(q) <= Len(r)
             IN  IF exists(f, q) THEN "NotADirectoryError" ELSE "FileNotFoundError"

\* p.mkdir(parents=True, exist_ok=True)
mkdir_p(f, p) ==
    LET missing == {q \in Prefixes(p) : ~exists(f, q)}
        blocked == {q \in Prefixes(p) : exists(f, q) /\ ~is_dir(f, q)}
    IN  IF blocked # {}
        THEN FsErr(IF p \in blocked THEN "FileExistsError" ELSE "NotADirectoryError",
                   <<"mkdir">>, f, {})
        ELSE FsOk([q \in DOMAIN f \cup missing |-> IF q \in missing THEN DirNode ELSE f[q]],
                  missing)

\* A lone surrogate, which JSON text can carry and UTF-8 cannot encode.
Surrogate == "U+D800"

\* text.encode("utf-8") succeeds
Encodable(text) == \A i \in 1..Len(text) : text[i] # Surrogate

RECURSIVE read_text(_)
\* p.read_text(encoding="utf-8", errors="replace") of the stored text: the
\* file is read with universal newlines, so "\r\n" and "\r" come back as
\* "\n".
read_text(stored) ==
    IF stored = <<>> THEN <<>>
    ELSE IF Head(stored) = "\r"
    THEN IF Len(stored) > 1 /\ stored[2] = "\n"
         THEN <<"\n">> \o read_text(Tail(Tail(stored)))
         ELSE <<"\n">> \o read_text(Tail(stored))
    ELSE <<Head(stored)>> \o read_text(Tail(stored))

\* p.write_text(text, encoding="utf-8"): the type of text is checked, the
\* file is opened for writing (created or truncated), and the text is
\* encoded and written.
write_text(f, p, text) ==
    IF text.t # "str" THEN FsErr("TypeError", <<"data must be str">>, f, {})
    ELSE IF LookupErr(f, p) # "none" THEN FsErr(LookupErr(f, p), <<"open">>, f, {})
    ELSE IF is_dir(f, p) THEN FsErr("IsADirectoryError", <<"open">>, f, {})
    ELSE IF ~Encodable(text.s)
    THEN FsErr("UnicodeEncodeError", <<"surrogates not allowed">>,
               [q \in DOMAIN f \cup {p} |-> IF q = p THEN FileNode(<<>>) ELSE f[q]], {p})
    ELSE FsOk([q \in DOMAIN f \cup {p} |-> IF q = p THEN FileNode(text.s) ELSE f[q]], {p})

\* with p.open("a") as fh: fh.write(text) -- the file is opened (and created
\* when missing) before the text is written.
append_text(f, p, text) ==
    IF LookupErr(f, p) # "none" THEN FsErr(LookupErr(f, p), <<"open">>, f, {})
    ELSE IF is_dir(f, p) THEN FsErr("IsADirectoryError", <<"open">>, f, {})
    ELSE LET old == IF is_file(f, p) THEN f[p].text ELSE <<>>
             opened == [q \in DOMAIN f \cup {p} |-> IF q = p THEN FileNode(old) ELSE f[q]]
         IN  IF text.t # "str"
             THEN FsErr("TypeError", <<"write() argument must be str">>, opened, {p})
             ELSE IF ~Encodable(text.s)
             THEN FsErr("UnicodeEncodeError", <<"surrogates not allowed">>, opened, {p})
             ELSE FsOk([opened EXCEPT ![p] = FileNode(old \o text.s)], {p})

\* The path q of the tree at src, moved to dst.
Rebase(src, dst, q) == dst \o SubSeq(q, Len(src) + 1, Len(q))

\* src.replace(dst): os.rename.
replace(f, src, dst) ==
    LET moved == {src} \cup Subtree(f, src)
        gone == moved \cup {dst}
        kept == DOMAIN f \ gone
        into == {Rebase(src, dst, q) : q \in moved}
        back(q) == Rebase(dst, src, q)
    IN  IF LookupErr(f, dst) # "none" THEN FsErr(LookupErr(f, dst), <<"rename">>, f, {})
        ELSE IF src = dst THEN FsOk(f, {src, dst})
        ELSE IF is_dir(f, src) /\ InParents(src, dst)
             THEN FsErr("OSError", <<"Invalid argument">>, f, {})
        ELSE IF is_dir(f, src) /\ exists(f, dst) /\ ~is_dir(f, dst)
             THEN FsErr("NotADirectoryError", <<"rename">>, f, {})
        ELSE IF is_dir(f, src) /\ Children(f, dst) # {}
             THEN FsErr("OSError", <<"Directory not empty">>, f, {})
        ELSE IF ~is_dir(f, src) /\ is_dir(f, dst)
             THEN FsErr("IsADirectoryError", <<"rename">>, f, {})
        ELSE FsOk([q \in kept \cup into |-> IF q \in into THEN f[back(q)] ELSE f[q]],
                  moved \cup into)

\* p.rmdir()
rmdir(f, p) ==
    IF ~exists(f, p) THEN FsErr("FileNotFoundError", <<"rmdir">>, f, {})
    ELSE IF ~is_dir(f, p) THEN FsErr("NotADirectoryError", <<"rmdir">>, f, {})
    ELSE IF Children(f, p) # {} THEN FsErr("OSError", <<"rmdir">>, f, {})
    ELSE FsOk([q \in DOMAIN f \ {p} |-> f[q]], {p})

\* p.unlink()
unlink(f, p) ==
    IF ~exists(f, p) THEN FsErr("FileNotFoundError", <<"No such file or directory">>, f, {})
    ELSE IF is_dir(f, p) THEN FsErr("IsADirectoryError", <<"Is a directory">>, f, {})
    ELSE FsOk([q \in DOMAIN f \ {p} |-> f[q]], {p})

(***************************************************************************)
(* Content classification of read_file / resources/read.                   *)
(***************************************************************************)
\* path.suffix.lower() for the file names of the model.
suffix(name) ==
    CASE name = "f.txt" -> ".txt"
      [] name = "g.bin" -> ".bin"
      [] OTHER -> ""

\* mimetypes.guess_type(str(path))[0]; "" stands for None.
guess_type(name) ==
    CASE suffix(name) = ".txt" -> "text/plain"
      [] suffix(name) = ".bin" -> "application/octet-stream"
      [] OTHER -> ""

TextSuffixes == {".md", ".txt", ".py", ".json", ".csv", ".yaml", ".yml", ".toml", ".ini", ".log"}

is_texty(mime, name) == mime = "text/plain" \/ suffix(name) \in TextSuffixes

\* base64.b64encode(data).decode("ascii")
b64encode(text) == <<"base64">> \o text

\* str(path.relative_to(base))
relative_to(p, base) ==
    IF p = base THEN <<".">> ELSE JoinParts(SubSeq(p, Len(base) + 1, Len(p)))

\* path_to_file_uri(p)
path_to_file_uri(p) == <<"file://", Sep>> \o JoinParts(p)

RECURSIVE SeqOf(_)
\* The elements of a set in the order the directory scan yields them.
SeqOf(S) ==
    IF S = {} THEN <<>>
    ELSE LET x == CHOOSE y \in S : TRUE IN <<x>> \o SeqOf(S \ {x})

(***************************************************************************)
(* call_tool(name, arguments).  A handler is written as a chain of         *)
(* operators, one per value the code binds before it branches on it.       *)
(***************************************************************************)
TextPart(s) == [type |-> "text", text |-> s]
JsonPart(v) == [type |-> "json", json |-> v]

ToolOk(f, content, touched) ==
    [exc |-> "none", msg |-> <<>>, fs |-> f, acc |-> touched, content |-> content]
ToolErr(e, m, f, touched) ==
    [exc |-> e, msg |-> m, fs |-> f, acc |-> touched, content |-> <<>>]

OkPayload == <<JsonPart(JObj([ok |-> JBool(TRUE)]))>>

\* The end of a mutating tool: the last filesystem call w raised, or the
\* tool returns {"ok": true}.
Finish(touched, w) ==
    IF w.exc # "none" THEN ToolErr(w.exc, w.msg, w.fs, touched \cup w.acc)
    ELSE ToolOk(w.fs, OkPayload, touched \cup w.acc)

\* The path of v joined to the sandbox root, with no containment check.
path_of_unchecked(f, v) ==
    IF v.t # "str" THEN Raise("TypeError", <<"expected str, bytes or os.PathLike object">>)
    ELSE [exc |-> "none", path |-> resolve(f, Join(BasePath, Path(v.s)))]

\* safe_join_under_base(v): Path() of a value that is no string raises.
path_of(f, v) ==
    IF v.t # "str" THEN Raise("TypeError", <<"expected str, bytes or os.PathLike object">>)
    ELSE safe_join_under_base(f, v.s)

\* safe_join_under_base(args.get(key, ""))
PathArg(f, args, key) == path_of(f, Get(args, key, JStr(<<>>)))

\* bool(args.get(key))
Flag(args, key) == Truthy(Get(args, key, JNull))

\* if make_parents: path.parent.mkdir(parents=True, exist_ok=True)
MakeParents(f, make_parents, path) ==
    IF make_parents THEN mkdir_p(f, Parent(path)) ELSE FsOk(f, {})

tool_echo(f, args) ==
    ToolOk(f, <<TextPart(PyStr(Get(args, "text", JStr(<<>>)))),
                JsonPart(JObj([text |-> JStr(PyStr(Get(args, "text", JStr(<<>>))))]))>>, {})

read_payload(f, path, mime) ==
    IF is_texty(mime, Name(path))
    THEN JObj([path |-> JStr(relative_to(path, BASE_DIR)),
               mimeType |-> JStr(<<IF mime # "" THEN mime ELSE "text/plain">>),
               text |-> JStr(read_text(f[path].text))])
    ELSE JObj([path |-> JStr(relative_to(path, BASE_DIR)),
               mimeType |-> JStr(<<IF mime # "" THEN mime ELSE "application/octet-stream">>),
               blob_b64 |-> JStr(b64encode(f[path].text))])

read_file_at(f, r) ==
    IF r.exc # "none" THEN ToolErr(r.exc, r.msg, f, {})
    ELSE IF ~exists(f, r.path) \/ ~is_file(f, r.path)
    THEN ToolErr("FileNotFoundError", <<"File not found">>, f, {})
    ELSE ToolOk(f, <<JsonPart(read_payload(f, r.path, guess_type(Name(r.path))))>>, {r.path})

tool_read_file(f, args) == read_file_at(f, PathArg(f, args, "path"))

write_file_made(m, path, text) ==
    IF m.exc # "none" THEN ToolErr(m.exc, m.msg, m.fs, m.acc)
    ELSE Finish(m.acc, write_text(m.fs, path, text))

write_file_at(f, r, text, make_parents) ==
    IF r.exc # "none" THEN ToolErr(r.exc, r.msg, f, {})
    ELSE write_file_made(MakeParents(f, make_parents, r.path), r.path, text)

tool_write_file(f, args) ==
    write_file_at(f, PathArg(f, args, "path"), Get(args, "text", JStr(<<>>)),
                  Flag(args, "make_parents"))

append_file_made(m, path, text) ==
    IF m.exc # "none" THEN ToolErr(m.exc, m.msg, m.fs, m.acc)
    ELSE Finish(m.acc, append_text(m.fs, path, text))

append_file_at(f, r, text, make_parents) ==
    IF r.exc # "none" THEN ToolErr(r.exc, r.msg, f, {})
    ELSE append_file_made(MakeParents(f, make_parents, r.path), r.path, text)

tool_append_file(f, args) ==
    append_file_at(f, PathArg(f, args, "path"), Get(args, "text", JStr(<<>>)),
                   Flag(args, "make_parents"))

\* What p.stat() and p.is_dir() look at: they follow a symbolic link.
StatTarget(f, p) == IF is_link(f, p) THEN f[p].target ELSE p

\* One entry of list_dir.
Entry(f, dir, p) ==
    JObj([name |-> JStr(relative_to(p, dir)),
          is_dir |-> JBool(is_dir(f, StatTarget(f, p))),
          size |-> JNum(IF is_file(f, StatTarget(f, p))
                        THEN Len(f[StatTarget(f, p)].text) ELSE 0),
          uri |-> JStr(path_to_file_uri(p))])

\* The entries of the paths the scan yields, in its order; a path whose
\* stat() fails is skipped.
Entries(f, dir, order) ==
    [i \in 1..Len(order) |-> Entry(f, dir, order[i])]

Statable(f, it) == {p \in it : exists(f, StatTarget(f, p))}

\* list_dir scanning the whole subtree whatever `recursive` is.
list_dir_at_rglob(f, r, recursive) ==
    IF r.exc # "none" THEN ToolErr(r.exc, r.msg, f, {})
    ELSE IF ~exists(f, r.path) \/ ~is_dir(f, r.path)
    THEN ToolErr("NotADirectoryError", <<"Directory not found">>, f, {})
    ELSE ToolOk(f,
                <<JsonPart(JObj([entries |-> JList(Entries(f, r.path,
                      SeqOf(Statable(f, Subtree(f, r.path)))))]))>>,
                {r.path} \cup Statable(f, Subtree(f, r.path)))

list_dir_at(f, r, recursive) ==
    IF r.exc # "none" THEN ToolErr(r.exc, r.msg, f, {})
    ELSE IF ~exists(f, r.path) \/ ~is_dir(f, r.path)
    THEN ToolErr("NotADirectoryError", <<"Directory not found">>, f, {})
    ELSE ToolOk(f,
                <<JsonPart(JObj([entries |-> JList(Entries(f, r.path,
                      SeqOf(Statable(f, IF recursive THEN Subtree(f, r.path)
                                        ELSE Children(f, r.path)))))]))>>,
                {r.path} \cup Statable(f, IF recursive THEN Subtree(f, r.path)
                                          ELSE Children(f, r.path)))

tool_list_dir(f, args) == list_dir_at(f, PathArg(f, args, "path"), Flag(args, "recursive"))

make_dirs_at(f, r) ==
    IF r.exc # "none" THEN ToolErr(r.exc, r.msg, f, {})
    ELSE Finish({}, mkdir_p(f, r.path))

tool_make_dirs(f, args) == make_dirs_at(f, PathArg(f, args, "path"))

move_path_made(m, src, dst) ==
    IF m.exc # "none" THEN ToolErr(m.exc, m.msg, m.fs, m.acc)
    ELSE IF ~exists(m.fs, src)
    THEN ToolErr("FileNotFoundError", <<"Source not found">>, m.fs, m.acc)
    ELSE Finish(m.acc, replace(m.fs, src, dst))

move_path_at(f, s, d, make_parents) ==
    IF s.exc # "none" THEN ToolErr(s.exc, s.msg, f, {})
    ELSE IF d.exc # "none" THEN ToolErr(d.exc, d.msg, f, {})
    ELSE move_path_made(MakeParents(f, make_parents, d.path), s.path, d.path)

tool_move_path(f, args) ==
    move_path_at(f, PathArg(f, args, "src"), PathArg(f, args, "dst"),
                 Flag(args, "make_parents"))

\* try: path.rmdir() except OSError: raise OSError("Directory not empty")
delete_dir(f, d) ==
    IF d.exc # "none" THEN ToolErr("OSError", <<"Directory not empty">>, f, {})
    ELSE ToolOk(d.fs, OkPayload, d.acc)

\* delete_path refusing a path that does not exist.
delete_path_at_strict(f, r, confirm) ==
    IF r.exc # "none" THEN ToolErr(r.exc, r.msg, f, {})
    ELSE IF ~confirm
    THEN ToolErr("ValueError", <<"Refusing to delete without confirm=true">>, f, {})
    ELSE IF ~exists(f, r.path) THEN ToolErr("FileNotFoundError", <<"Path not found">>, f, {})
    ELSE IF is_dir(f, r.path) THEN delete_dir(f, rmdir(f, r.path))
    ELSE Finish({}, unlink(f, r.path))

delete_path_at(f, r, confirm) ==
    IF r.exc # "none" THEN ToolErr(r.exc, r.msg, f, {})
    ELSE IF ~confirm
    THEN ToolErr("ValueError", <<"Refusing to delete without confirm=true">>, f, {})
    ELSE IF ~exists(f, r.path) THEN ToolOk(f, OkPayload, {})
    ELSE IF is_dir(f, r.path) THEN delete_dir(f, rmdir(f, r.path))
    ELSE Finish({}, unlink(f, r.path))

tool_delete_path(f, args) ==
    delete_path_at(f, PathArg(f, args, "path"), Flag(args, "confirm"))

\* float(n) for the element n of `numbers`: [ok, val].
to_float(v) ==
    CASE v.t = "num"  -> [ok |-> TRUE, val |-> v.n]
      [] v.t = "bool" -> [ok |-> TRUE, val |-> IF v.b THEN 1 ELSE 0]
      [] v.t = "str" /\ v.s = <<"3">> -> [ok |-> TRUE, val |-> 3]
      [] OTHER -> [ok |-> FALSE, val |-> 0]

RECURSIVE SumSeq(_)
SumSeq(l) == IF l = <<>> THEN 0 ELSE to_float(Head(l)).val + SumSeq(Tail(l))

tool_add_numbers(f, args) ==
    LET nums == Get(args, "numbers", JNull)
    IN  IF nums.t # "list" \/ nums.l = <<>>
        THEN ToolErr("ValueError", <<"numbers must be a non-empty array">>, f, {})
        ELSE IF \E i \in 1..Len(nums.l) : ~to_float(nums.l[i]).ok
             THEN ToolErr("ValueError", <<"numbers must contain only numeric values">>, f, {})
        ELSE ToolOk(f, <<TextPart(<<"sum = ", ToString(SumSeq(nums.l))>>),
                         JsonPart(JObj([sum |-> JNum(SumSeq(nums.l))]))>>, {})

\* The clock reading of `now`, in ISO 8601; an unknown zone falls back to
\* the local one.
tool_now(f, args) ==
    LET iso == <<"iso">>
    IN  ToolOk(f, <<TextPart(iso), JsonPart(JObj([iso |-> JStr(iso)]))>>, {})

RECURSIVE Chars(_)
Chars(s) == IF s = <<>> THEN 0 ELSE Len(Head(s)) + Chars(Tail(s))

\* Number of maximal runs of tokens other than the blank " ".
Words(s) ==
    Cardinality({i \in 1..Len(s) : s[i] # " " /\ (i = 1 \/ s[i - 1] = " ")})

tool_word_count(f, args) ==
    LET text == PyStr(Get(args, "text", JStr(<<>>)))
        res == JObj([words |-> JNum(Words(text)), characters |-> JNum(Chars(text))])
    IN  ToolOk(f, <<TextPart(<<"words=", ToString(Words(text)),
                               " chars=", ToString(Chars(text))>>),
                    JsonPart(res)>>, {})

ToolNames ==
    <<"echo", "add_numbers", "now", "word_count", "read_file", "write_file",
      "append_file", "list_dir", "make_dirs", "move_path", "delete_path">>

IsTool(name, n) == name.t = "str" /\ name.s = <<n>>

\* The branches of call_tool.  Every branch of a known tool starts with
\* args.get, which a value that is no dict does not have.
run_tool(f, name, a) ==
    IF a.t # "obj" /\ \E i \in 1..Len(ToolNames) : IsTool(name, ToolNames[i])
    THEN ToolErr("AttributeError", <<"object has no attribute 'get'">>, f, {})
    ELSE CASE IsTool(name, "echo")        -> tool_echo(f, a.o)
           [] IsTool(name, "add_numbers") -> tool_add_numbers(f, a.o)
           [] IsTool(name, "now")         -> tool_now(f, a.o)
           [] IsTool(name, "word_count")  -> tool_word_count(f, a.o)
           [] IsTool(name, "read_file")   -> tool_read_file(f, a.o)
           [] IsTool(name, "write_file")  -> tool_write_file(f, a.o)
           [] IsTool(name, "append_file") -> tool_append_file(f, a.o)
           [] IsTool(name, "list_dir")    -> tool_list_dir(f, a.o)
           [] IsTool(name, "make_dirs")   -> tool_make_dirs(f, a.o)
           [] IsTool(name, "move_path")   -> tool_move_path(f, a.o)
           [] IsTool(name, "delete_path") -> tool_delete_path(f, a.o)
           [] OTHER -> ToolErr("ValueError", <<"Unknown tool: ">> \o PyStr(name), f, {})

\* call_tool(name, arguments): args = arguments or {}
call_tool(f, name, arguments) == run_tool(f, name, OrEmpty(arguments))

(***************************************************************************)
(* mcp_endpoint: the JSON-RPC dispatcher.                                  *)
(***************************************************************************)
jsonrpc_result(result, request_id) ==
    [jsonrpc |-> "2.0", result |-> result, id |-> request_id]

\* An error envelope that also carries a null result.
jsonrpc_error_with_result(code, message, request_id) ==
    [jsonrpc |-> "2.0", result |-> JNull,
     error |-> [code |-> code, message |-> message], id |-> request_id]

jsonrpc_error(code, message, request_id) ==
    [jsonrpc |-> "2.0", error |-> [code |-> code, message |-> message], id |-> request_id]

\* `return jsonify(envelope), status`
Return(status, envelope, f, touched) ==
    [exc |-> "none", status |-> status, body |-> envelope, fs |-> f, acc |-> touched]

IsMethod(method, m) == method.t = "str" /\ method.s = <<m>>

Methods ==
    {"initialize", "tools/list", "tools/call", "resources/list", "resources/read",
     "resources/templates/list"}

\* The tool catalog as tools/list serializes it (the name of each descriptor;
\* descriptions and schemas are constant data).
Catalog == [i \in 1..Len(ToolNames) |-> [name |-> ToolNames[i]]]

handle_initialize(f, request_id) ==
    Return(200, jsonrpc_result([serverInfo |-> [name |-> "mcp-fs-server", version |-> "0.2.0"]],
                               request_id), f, {})

handle_tools_list(f, request_id) ==
    Return(200, jsonrpc_result([tools |-> Catalog], request_id), f, {})

\* return jsonify(jsonrpc_result(result, request_id)), unless call_tool raised
tools_call_result(r, request_id) ==
    IF r.exc # "none" THEN r
    ELSE Return(200, jsonrpc_result([content |-> r.content], request_id), r.fs, r.acc)

\* params.get("name") alone
tool_name_of_name_only(params) == Get(params, "name", JNull)

\* params.get("name") or params.get("toolName")
tool_name_of(params) ==
    IF Truthy(Get(params, "name", JNull)) THEN Get(params, "name", JNull)
    ELSE Get(params, "toolName", JNull)

handle_tools_call(f, params, request_id) ==
    IF params.t # "obj" THEN ToolErr("AttributeError", <<"object has no attribute 'get'">>, f, {})
    ELSE tools_call_result(
             call_tool(f, tool_name_of(params.o),
                       OrEmpty(Get(params.o, "arguments", JObj(Empty)))),
             request_id)

\* The regular files BASE_DIR.rglob("*") yields; is_file() follows a link.
ResourceFiles(f) ==
    {p \in Subtree(f, BASE_DIR) :
        is_file(f, p) \/ (is_link(f, p) /\ is_file(f, f[p].target))}

resource_item(p) ==
    [uri |-> path_to_file_uri(p), name |-> Name(p), title |-> Name(p),
     mimeType |-> IF guess_type(Name(p)) # "" THEN guess_type(Name(p))
                  ELSE "application/octet-stream"]

resource_items(order) == [i \in 1..Len(order) |-> resource_item(order[i])]

handle_resources_list(f, request_id) ==
    Return(200, jsonrpc_result([resources |-> resource_items(SeqOf(ResourceFiles(f)))],
                               request_id),
           f, {BASE_DIR} \cup ResourceFiles(f))

resource_contents(f, uri, path, mime) ==
    IF is_texty(mime, Name(path))
    THEN [uri |-> uri, name |-> Name(path),
          mimeType |-> IF mime # "" THEN mime ELSE "text/plain",
          text |-> read_text(f[path].text)]
    ELSE [uri |-> uri, name |-> Name(path),
          mimeType |-> IF mime # "" THEN mime ELSE "application/octet-stream",
          blob |-> b64encode(f[path].text)]

resources_read_at(f, uri, r, request_id) ==
    IF r.exc # "none" THEN ToolErr(r.exc, r.msg, f, {})
    ELSE IF ~exists(f, r.path) \/ ~is_file(f, r.path)
    THEN Return(404, jsonrpc_error(-32002, <<"Resource not found">>, request_id), f, {})
    ELSE Return(200,
                jsonrpc_result([contents |->
                    <<resource_contents(f, uri, r.path, guess_type(Name(r.path)))>>],
                    request_id),
                f, {r.path})

\* resources/read taking what follows the scheme of any string URI.
resources_read_any_scheme(f, uri, request_id) ==
    IF ~Truthy(uri) \/ uri.t # "str"
    THEN Return(400, jsonrpc_error(-32602, <<"Missing 'uri'">>, request_id), f, {})
    ELSE resources_read_at(f, uri.s, safe_join_under_base(f, Tail(uri.s)), request_id)

resources_read_uri(f, uri, request_id) ==
    IF ~Truthy(uri) \/ uri.t # "str"
    THEN Return(400, jsonrpc_error(-32602, <<"Missing 'uri'">>, request_id), f, {})
    ELSE IF Head(uri.s) # "file://"
    THEN Return(400, jsonrpc_error(-32602, <<"Only file:// URIs are supported">>, request_id),
                f, {})
    ELSE resources_read_at(f, uri.s, safe_join_under_base(f, Tail(uri.s)), request_id)

handle_resources_read(f, params, request_id) ==
    IF params.t # "obj" THEN ToolErr("AttributeError", <<"object has no attribute 'get'">>, f, {})
    ELSE resources_read_uri(f, Get(params.o, "uri", JNull), request_id)

handle_templates_list(f, request_id) ==
    Return(200, jsonrpc_result(
                   [resourceTemplates |-> <<[uriTemplate |-> "file:///{relative_path}",
                                             name |-> "Sandbox files"]>>], request_id), f, {})

\* A routing that also serves the method names "listTools" and "callTool".
route_legacy(f, method, params, request_id) ==
    CASE IsMethod(method, "initialize") -> handle_initialize(f, request_id)
      [] IsMethod(method, "tools/list") \/ IsMethod(method, "listTools") ->
             handle_tools_list(f, request_id)
      [] IsMethod(method, "tools/call") \/ IsMethod(method, "callTool") ->
             handle_tools_call(f, params, request_id)
      [] IsMethod(method, "resources/list") -> handle_resources_list(f, request_id)
      [] IsMethod(method, "resources/read") -> handle_resources_read(f, params, request_id)
      [] IsMethod(method, "resources/templates/list") -> handle_templates_list(f, request_id)
      [] OTHER -> Return(400, jsonrpc_error(-32601, <<"Method not found: ">> \o PyStr(method),
                                            request_id), f, {})

\* The routing of mcp_endpoint (lines 425-509).
route(f, method, params, request_id) ==
    CASE IsMethod(method, "initialize") -> handle_initialize(f, request_id)
      [] IsMethod(method, "tools/list") -> handle_tools_list(f, request_id)
      [] IsMethod(method, "tools/call") -> handle_tools_call(f, params, request_id)
      [] IsMethod(method, "resources/list") -> handle_resources_list(f, request_id)
      [] IsMethod(method, "resources/read") -> handle_resources_read(f, params, request_id)
      [] IsMethod(method, "resources/templates/list") -> handle_templates_list(f, request_id)
      [] OTHER -> Return(400, jsonrpc_error(-32601, <<"Method not found: ">> \o PyStr(method),
                                            request_id), f, {})

\* The body of the try statement of mcp_endpoint: a response, or the
\* exception that leaves it.  Decoding a malformed payload makes flask's
\* get_json raise werkzeug's BadRequest.
mcp_try(f, r) ==
    IF r.raw = "malformed" THEN ToolErr("BadRequest", <<"400 Bad Request">>, f, {})
    ELSE IF r.body.t # "obj"
    THEN Return(400, jsonrpc_error(-32600, <<"Invalid Request: expected JSON object.">>, JNull),
                f, {})
    ELSE route(f, Get(r.body.o, "method", JNull),
               OrEmpty(Get(r.body.o, "params", JObj(Empty))),
               Get(r.body.o, "id", JNull))

\* The exception classes of the model; each derives from Exception.
Exceptions ==
    {"BadRequest", "JSONDecodeError", "PermissionError", "AttributeError", "TypeError",
     "ValueError", "UnicodeEncodeError", "FileNotFoundError", "NotADirectoryError", "IsADirectoryError",
     "FileExistsError", "OSError"}

\* The except clauses of mcp_endpoint, without the last one.
except_clauses_specific(t, rid) ==
    IF t.exc = "none" THEN t
    ELSE IF t.exc = "JSONDecodeError"
    THEN Return(400, jsonrpc_error(-32700, <<"Parse error: ">> \o t.msg, JNull), t.fs, t.acc)
    ELSE IF t.exc = "PermissionError"
    THEN Return(403, jsonrpc_error(-32001, t.msg, rid), t.fs, t.acc)
    ELSE t

\* The except clauses of mcp_endpoint: what the try block returned, or the
\* error response of the first clause that matches the exception; an
\* exception no clause matches leaves mcp_endpoint.
except_clauses(t, rid) ==
    IF t.exc = "none" THEN t
    ELSE IF t.exc = "JSONDecodeError"
    THEN Return(400, jsonrpc_error(-32700, <<"Parse error: ">> \o t.msg, JNull), t.fs, t.acc)
    ELSE IF t.exc = "PermissionError"
    THEN Return(403, jsonrpc_error(-32001, t.msg, rid), t.fs, t.acc)
    ELSE IF t.exc \in Exceptions
    THEN Return(500, jsonrpc_error(-32000, t.msg, rid), t.fs, t.acc)
    ELSE t

\* The except clauses answering without the id of the request.
RequestId_none(r) == JNull

\* body.get("id") if isinstance(body, dict) else None; body is unbound when
\* decoding failed, and the handler then keeps rid = None.
RequestId(r) ==
    IF r.raw = "json" /\ r.body.t = "obj" THEN Get(r.body.o, "id", JNull) ELSE JNull

\* mcp_endpoint serving the request r on the filesystem f.
mcp_endpoint(f, r) == except_clauses(mcp_try(f, r), RequestId(r))

(***************************************************************************)
(* The initial filesystem: the sandbox root exists (BASE_DIR.mkdir at      *)
(* import), and so does /etc/passwd outside it.  The sandbox may hold a    *)
(* symbolic link to a directory outside the root.                          *)
(***************************************************************************)
Secret == <<"root:x:0">>

Outside0 ==
    (<<>> :> DirNode) @@ (<<"home">> :> DirNode) @@ (<<"home", "dell">> :> DirNode)
    @@ (<<"etc">> :> DirNode) @@ (<<"etc", "passwd">> :> FileNode(Secret))

PlainFs == Outside0 @@ (BASE_DIR :> DirNode)

LinkedFs == PlainFs @@ (Append(BASE_DIR, "ln") :> LinkNode(<<"etc">>))

InitFs == {PlainFs, LinkedFs}

\* The part of a filesystem outside the sandbox root.
Outside(f) ==
    LET out == {p \in DOMAIN f : p # BASE_DIR /\ ~InParents(BASE_DIR, p)}
    IN  [p \in out |-> f[p]]

(***************************************************************************)
(* The requests of the model.                                              *)
(***************************************************************************)
S(x) == JStr(<<x>>)

\* "a/b" as a string
P2(a, b) == JStr(<<a, Sep, b>>)

Escape == JStr(<<"..", Sep, "..", Sep, "..", Sep, "etc", Sep, "passwd">>)

Request(method, params) ==
    [body |-> JObj([id |-> JNum(1), method |-> S(method), params |-> params]),
     raw |-> "json"]

Call(tool, arguments) ==
    Request("tools/call", JObj([arguments |-> JObj(arguments), name |-> S(tool)]))

Hi == S("hi")

DG == P2("d", "g.bin")
MkP == JBool(TRUE)

Move(s, d, b) == Call("move_path", [dst |-> d, make_parents |-> JBool(b), src |-> s])

Delete(p, c) == Call("delete_path", [confirm |-> c, path |-> p])

ToolCalls ==
       {Call("read_file", [path |-> p]) :
            p \in {S("f.txt"), DG, JStr(<<Sep, "f.txt">>), Escape, P2("ln", "passwd"), JNum(5)}}
  \cup {Call("write_file", [path |-> p, text |-> Hi]) :
            p \in {S("f.txt"), DG, P2("ln", "passwd")}}
  \cup {Call("write_file", [make_parents |-> MkP, path |-> p, text |-> t]) :
            p \in {DG, Escape}, t \in {Hi, JNum(5)}}
  \cup {Call("write_file", [make_parents |-> MkP, path |-> S("f.txt"), text |-> t]) :
            t \in {JStr(<<>>), JStr(<<"\r">>), JStr(<<Surrogate>>)}}
  \cup {Call("write_file", [make_parents |-> MkP, path |-> P2("d", "f.txt"), text |-> Hi])}
  \cup {Call("append_file", [path |-> p, text |-> t]) :
            p \in {S("f.txt"), Escape}, t \in {Hi, JNum(5)}}
  \cup {Call("list_dir", [path |-> p, recursive |-> JBool(b)]) :
            p \in {JStr(<<>>), S("d"), Escape}, b \in BOOLEAN}
  \cup {Call("make_dirs", [path |-> p]) : p \in {S("d"), JStr(<<>>), Escape}}
  \cup {Move(S("f.txt"), DG, FALSE), Move(S("f.txt"), DG, TRUE), Move(DG, S("f.txt"), FALSE),
        Move(Escape, S("f.txt"), FALSE), Move(S("f.txt"), Escape, TRUE),
        Move(JStr(<<>>), S("d"), FALSE), Move(S("d"), JStr(<<>>), FALSE)}
  \cup {Delete(p, JBool(TRUE)) : p \in {JStr(<<>>), S("d"), S("f.txt"), DG, Escape, S("ln")}}
  \cup {Delete(S("f.txt"), c) : c \in {JBool(FALSE), S("yes"), JNum(1)}}
  \cup {Call("delete_path", [path |-> S("f.txt")])}
  \cup {Call("echo", [text |-> Hi]), Call("echo", Empty),
        Call("add_numbers", [numbers |-> JList(<<JNum(1), JNum(2)>>)]),
        Call("add_numbers", [numbers |-> JList(<<>>)]),
        Call("add_numbers", [numbers |-> JList(<<S("x")>>)]),
        Call("add_numbers", [numbers |-> JList(<<JNum(1), S("3")>>)]),
        Call("add_numbers", [numbers |-> JList(<<JBool(TRUE)>>)]),
        Call("add_numbers", [numbers |-> JNum(5)]),
        Call("add_numbers", Empty),
        Call("now", Empty),
        Call("word_count", [text |-> JStr(<<"Hello", " ", "MCP">>)]),
        Call("nope", Empty),
        Call("nope", [confirm |-> JBool(TRUE), path |-> S("f.txt")]),
        Request("tools/call", JObj([arguments |-> JObj(Empty), name |-> JStr(<<>>)])),
        Request("tools/call", JObj([arguments |-> JObj(Empty), name |-> JNum(5)])),
        Request("tools/call", JObj([arguments |-> JObj([text |-> Hi]), toolName |-> S("echo")])),
        Request("tools/call", JObj([arguments |-> JList(<<JNum(1)>>), name |-> S("echo")])),
        Request("tools/call", JObj(Empty)),
        Request("tools/call", JList(<<JNum(1)>>)),
        Request("tools/call", JNull)}

FileUri(rest) == JStr(<<"file://">> \o rest)

ResourceReads ==
    {Request("resources/read", JObj([uri |-> u])) :
        u \in {FileUri(<<"f.txt">>), FileUri(DG.s), FileUri(Escape.s),
               FileUri(<<"ln", Sep, "passwd">>), FileUri(<<"d">>),
               JStr(path_to_file_uri(Append(BASE_DIR, "f.txt"))),
               JStr(<<"http://", "f.txt">>), JNum(5)}}
    \cup {Request("resources/read", JObj(Empty)), Request("resources/read", JList(<<JNum(1)>>))}

BadBodies ==
    {[raw |-> "malformed"],
     [body |-> JList(<<>>), raw |-> "json"],
     [body |-> JNum(5), raw |-> "json"],
     [body |-> JNull, raw |-> "json"]}

UnknownRequests ==
    {Request("listTools", JObj(Empty)), Request("callTool", JObj(Empty)),
     [body |-> JObj(Empty), raw |-> "json"],
     [body |-> JObj([id |-> JNum(1), method |-> JNum(5)]), raw |-> "json"]}

NoRequest == [raw |-> "none"]
NoResponse == [status |-> 0]
NotCalled == [exc |-> "pending"]
Running == [kind |-> "running"]
NotDerived == [done |-> FALSE]

\* The values of the variables of a part of the program that does not run.
ServerIdle ==
    fs_before = fs /\ req = NoRequest /\ resp = NoResponse /\ acc = {} /\ raised = "none"
ResolveIdle == user_path = <<>> /\ joined = NotCalled
ChatIdle ==
    /\ peer = "none" /\ oracle = "none" /\ pc = "idle" /\ tools = <<>> /\ messages = <<>>
    /\ round = 0 /\ calls = <<>> /\ idx = 0 /\ oracle_calls = 0 /\ invoked = 0
    /\ sent = <<>> /\ reply = NoResponse /\ outcome = Running
DeriveIdle == result_parts = <<>> /\ derived = NotDerived
RaceIdle == deleters = <<>>

\* Every file of f holds at most MaxText tokens.
TextsFit(f) == \A p \in DOMAIN f : f[p].kind = "file" => Len(f[p].text) <= MaxText

Init ==
    /\ fs \in InitFs
    /\ ServerIdle
    /\ ResolveIdle
    /\ ChatIdle
    /\ DeriveIdle
    /\ RaceIdle

\* The state after mcp_endpoint returned out for the request r, t being the
\* outcome of its try block.  An exception that leaves mcp_endpoint is
\* recorded as the response [status |-> 500, raised |-> class].
Respond(r, t, out) ==
    /\ TextsFit(out.fs)
    /\ fs' = out.fs
    /\ fs_before' = fs
    /\ req' = r
    /\ resp' = IF out.exc = "none" THEN [status |-> out.status, body |-> out.body]
               ELSE [status |-> 500, raised |-> out.exc]
    /\ acc' = out.acc
    /\ raised' = t.exc
    /\ UNCHANGED <<resolveVars, raceVars, chatVars, deriveVars>>

\* mcp_endpoint serves the request r.
Serve(r) == Respond(r, mcp_try(fs, r), mcp_endpoint(fs, r))

ServeBadBody == \E r \in BadBodies : Serve(r)
ServeInitialize == Serve(Request("initialize", JObj(Empty)))
ServeToolsList == Serve(Request("tools/list", JObj(Empty)))
ServeToolsCall == \E r \in ToolCalls : Serve(r)
ServeResourcesList == Serve(Request("resources/list", JObj(Empty)))
ServeResourcesRead == \E r \in ResourceReads : Serve(r)
ServeTemplatesList == Serve(Request("resources/templates/list", JObj(Empty)))
ServeUnknown == \E r \in UnknownRequests : Serve(r)

Next ==
    \/ ServeBadBody
    \/ ServeInitialize
    \/ ServeToolsList
    \/ ServeToolsCall
    \/ ServeResourcesList
    \/ ServeResourcesRead
    \/ ServeTemplatesList
    \/ ServeUnknown

Spec == Init /\ [][Next]_vars

(***************************************************************************)
(* safe_join_under_base on its own: one call on a path string.             *)
(***************************************************************************)
PathAtoms == {"..", ".", "etc", "passwd", "ln"}

RECURSIVE PathStringsOfLen(_)
\* The strings of n tokens in which no two atoms are adjacent (two adjacent
\* atoms are one longer name).
PathStringsOfLen(n) ==
    IF n = 0 THEN {<<>>}
    ELSE {Append(s, t) : s \in PathStringsOfLen(n - 1), t \in {Sep}}
         \cup {Append(s, t) : s \in {x \in PathStringsOfLen(n - 1) :
                                        x = <<>> \/ x[Len(x)] = Sep},
                              t \in PathAtoms}

PathStrings == UNION {PathStringsOfLen(n) : n \in 0..MaxPathLen}

InitResolve ==
    /\ fs \in InitFs
    /\ ServerIdle
    /\ user_path \in PathStrings
    /\ joined = NotCalled
    /\ ChatIdle
    /\ DeriveIdle
    /\ RaceIdle

CallSafeJoin ==
    /\ joined = NotCalled
    /\ joined' = safe_join_under_base(fs, user_path)
    /\ UNCHANGED <<serverVars, user_path, chatVars, deriveVars, raceVars>>

SpecResolve == InitResolve /\ [][CallSafeJoin]_vars

(***************************************************************************)
(* The bridge (mcp_openai_bridge.py).  Serialised JSON is the pair of the  *)
(* tag "json.dumps" and the value; the JSON texts the oracle sends as tool *)
(* arguments are strings.                                                  *)
(***************************************************************************)
json_dumps(v) == <<"json.dumps", v>>

\* json.loads on the argument texts of the model
json_loads(s) ==
    CASE s = "{}" -> [exc |-> "none", value |-> JObj(Empty)]
      [] s = "{\"text\": \"hi\"}" -> [exc |-> "none", value |-> JObj([text |-> Hi])]
      [] s = "{\"path\": \"../../../etc/passwd\"}" ->
             [exc |-> "none", value |-> JObj([path |-> Escape])]
      [] s = "[1]" -> [exc |-> "none", value |-> JList(<<JNum(1)>>)]
      [] OTHER -> Raise("JSONDecodeError", <<"Expecting property name enclosed in double quotes">>)

\* `tc.function.arguments or "{}"`
arguments_or_empty(s) == IF s = "" THEN "{}" ELSE s

\* The payload mcp_jsonrpc posts.
BridgeRequest(method, params) ==
    [raw |-> "json",
     body |-> JObj([jsonrpc |-> S("2.0"), id |-> S("uuid4"), method |-> S(method),
                    params |-> params])]

\* The HTTP response of this repository's server: what mcp_endpoint returns.
FlaskServer(f, r) == [status |-> r.status, body |-> r.body, fs |-> r.fs]

\* The tools of a server that speaks the method names of the bridge.
OtherCatalog == <<[name |-> "echo"], [name |-> "read_file"], [name |-> "soft"], [name |-> "lines"]>>

OtherTool(name, arguments, rid) ==
    CASE name = S("echo") ->
             [status |-> 200,
              body |-> jsonrpc_result([content |-> <<TextPart(<<"hi">>),
                                                     JsonPart(JObj([text |-> Hi]))>>], rid)]
      [] name = S("lines") ->
             [status |-> 200,
              body |-> jsonrpc_result([content |-> <<TextPart(<<"a">>), TextPart(<<>>),
                                                     TextPart(<<"b">>)>>], rid)]
      [] name = S("read_file") ->
             [status |-> 403, body |-> jsonrpc_error(-32001, <<"Path outside sandbox">>, rid)]
      [] name = S("soft") ->
             [status |-> 200, body |-> jsonrpc_error(-32000, <<"busy">>, rid)]
      [] OTHER ->
             [status |-> 500,
              body |-> jsonrpc_error(-32000, <<"Unknown tool: ">> \o PyStr(name), rid)]

\* A server that handles "listTools" and "callTool".
OtherServer(method, params, rid) ==
    CASE method = "listTools" ->
             [status |-> 200, body |-> jsonrpc_result([tools |-> OtherCatalog], rid)]
      [] method = "callTool" -> OtherTool(params.o.toolName, params.o.arguments, rid)
      [] OTHER -> [status |-> 400, body |-> jsonrpc_error(-32601, <<"Method not found">>, rid)]

\* requests.post(MCP_URL, json=payload): the response of the server behind
\* MCP_URL, and the filesystem that server leaves.
post(p, f, method, params) ==
    IF p = "mcp_endpoint" THEN FlaskServer(f, mcp_endpoint(f, BridgeRequest(method, params)))
    ELSE OtherServer(method, params, S("uuid4")) @@ [fs |-> f]

\* mcp_jsonrpc after the post (lines 18-22): the result member, or the
\* exception raised.
mcp_jsonrpc(r) ==
    IF r.status >= 400 THEN Raise("HTTPError", <<ToString(r.status), " Error">>)
    ELSE IF "error" \in DOMAIN r.body
    THEN Raise("RuntimeError",
               <<"MCP error ", ToString(r.body.error.code), ": ">> \o r.body.error.message)
    ELSE [exc |-> "none", result |-> r.body.result]

\* mcp_list_tools after the post: res["tools"]
mcp_list_tools(res) ==
    IF res.exc # "none" THEN res
    ELSE IF "tools" \notin DOMAIN res.result THEN Raise("KeyError", <<"'tools'">>)
    ELSE [exc |-> "none", tools |-> res.result.tools]

to_openai_tools(mcp_tools) ==
    [i \in 1..Len(mcp_tools) |->
        [type |-> "function", function |-> [name |-> mcp_tools[i].name]]]

RECURSIVE scan_parts(_, _, _)
\* The loop of lines 87-93 over the content parts: the texts collected and
\* the json value kept (None is JNull).
scan_parts(content, text_parts, json_obj) ==
    IF content = <<>> THEN [text_parts |-> text_parts, json_obj |-> json_obj]
    ELSE IF Head(content).type = "json" /\ "json" \in DOMAIN Head(content)
    THEN scan_parts(Tail(content), text_parts, Head(content).json)
    ELSE IF Head(content).type = "text"
    THEN scan_parts(Tail(content),
                    Append(text_parts, Get(Head(content), "text", <<>>)), json_obj)
    ELSE scan_parts(Tail(content), text_parts, json_obj)

RECURSIVE join_lines(_)
\* "\n".join(lines)
join_lines(lines) ==
    IF lines = <<>> THEN <<>>
    ELSE IF Len(lines) = 1 THEN lines[1]
    ELSE lines[1] \o <<"\n">> \o join_lines(Tail(lines))

NonEmpty(tp) == tp # <<>>

\* Lines 96-101 without the filter of line 101.
content_for_model_all_texts(scanned) ==
    IF scanned.json_obj # JNull THEN json_dumps(scanned.json_obj)
    ELSE join_lines(scanned.text_parts)

\* Lines 96-101, with the `or ""` of line 107.
content_for_model(scanned) ==
    IF scanned.json_obj # JNull THEN json_dumps(scanned.json_obj)
    ELSE join_lines(SelectSeq(scanned.text_parts, NonEmpty))

\* The content of the tool message for the result mcp_result (lines 87-107).
tool_content(mcp_result) ==
    content_for_model(scan_parts(Get(mcp_result, "content", <<>>), <<>>, JNull))

\* Lines 84-116: the tool message for the call tc, res being what
\* mcp_call_tool returned or raised.
tool_message(tc, res) ==
    [role |-> "tool", tool_call_id |-> tc.id, name |-> tc.function.name,
     content |-> IF res.exc = "none" THEN tool_content(res.result)
                 ELSE json_dumps(JObj([error |-> JStr(res.msg)]))]

\* `for _ in range(8)`
MaxRounds == 8

System == <<"You are a helpful assistant.">>
Prompt == <<"what is in the sandbox?">>
\* The text of line 119 (its dash is written "-" here).
Fallback == <<"Sorry-too many tool-calling steps without reaching a final answer.">>

\* One tool call of an oracle response (tc.dict()).
ToolCall(id, name, arguments) ==
    [id |-> id, type |-> "function", function |-> [name |-> name, arguments |-> arguments]]

\* The identifier the oracle gives the i-th call of its n-th response.
CallId(n, i) == <<"call", n, i>>

\* The oracle responses without tool calls.
OracleAnswers ==
    {[content |-> JStr(<<"done">>), tool_calls |-> <<>>], [content |-> JNull, tool_calls |-> <<>>]}

\* The n-th oracle response, when it requests tool calls: one call that
\* succeeds; four calls of which the first three fail at the server; three
\* calls of which the second has arguments that are no JSON text.
OracleRequests(n) ==
    {[content |-> JNull,
      tool_calls |-> <<ToolCall(CallId(n, 1), "echo", "{\"text\": \"hi\"}")>>],
     [content |-> JStr(<<"let me look">>),
      tool_calls |-> <<ToolCall(CallId(n, 1), "read_file", "{\"path\": \"../../../etc/passwd\"}"),
                       ToolCall(CallId(n, 2), "nope", ""),
                       ToolCall(CallId(n, 3), "soft", "{}"),
                       ToolCall(CallId(n, 4), "lines", "[1]")>>],
     [content |-> JNull,
      tool_calls |-> <<ToolCall(CallId(n, 1), "echo", "{\"text\": \"hi\"}"),
                       ToolCall(CallId(n, 2), "echo", "{text: hi"),
                       ToolCall(CallId(n, 3), "lines", "{}")>>]}

\* The oracles of the model: one that answers at once, one that requests
\* tool calls in every response, one that does either.
OracleKinds == {"direct", "always", "free"}

OracleResponses(kind, n) ==
    CASE kind = "direct" -> OracleAnswers
      [] kind = "always" -> OracleRequests(n)
      [] OTHER -> OracleAnswers \cup OracleRequests(n)

Raised(e) == [kind |-> "raised", exc |-> e.exc, msg |-> e.msg]
Returned(v) == [kind |-> "returned", value |-> v]

\* The params of line 32
call_params(name, args) == JObj([toolName |-> S(name), arguments |-> args])

\* mcp_call_tool(name, args): the post of "callTool"
mcp_call_tool(p, f, name, args) == post(p, f, "callTool", call_params(name, args))

\* An entry of the log of requests sent to MCP_URL.
Sent(method, params) == [method |-> method, params |-> params]

InitChat ==
    /\ fs = PlainFs
    /\ ServerIdle
    /\ ResolveIdle
    /\ DeriveIdle
    /\ peer \in {"mcp_endpoint", "other"}
    /\ oracle \in OracleKinds
    /\ pc = "start"
    /\ tools = <<>> /\ messages = <<>> /\ round = 0 /\ calls = <<>> /\ idx = 0
    /\ oracle_calls = 0 /\ invoked = 0 /\ sent = <<>> /\ reply = NoResponse
    /\ outcome = Running
    /\ RaceIdle

\* Lines 53-59 once "listTools" was answered with r: the exception of
\* mcp_list_tools leaves run_chat, or the conversation is seeded.
Seeded(r, listed) ==
    /\ sent' = Append(sent, Sent("listTools", JObj(Empty)))
    /\ reply' = [status |-> r.status, body |-> r.body]
    /\ fs' = r.fs
    /\ IF listed.exc # "none"
       THEN /\ pc' = "raised"
            /\ outcome' = Raised(listed)
            /\ UNCHANGED <<tools, messages>>
       ELSE /\ pc' = "oracle"
            /\ tools' = to_openai_tools(listed.tools)
            /\ messages' = <<[role |-> "system", content |-> System],
                             [role |-> "user", content |-> Prompt]>>
            /\ UNCHANGED outcome
    /\ UNCHANGED <<fs_before, req, resp, acc, raised, resolveVars, raceVars, deriveVars, peer, oracle, round,
                   calls, idx, oracle_calls, invoked>>

Fetched(r) == Seeded(r, mcp_list_tools(mcp_jsonrpc(r)))

\* run_chat, lines 53-59
FetchCatalog ==
    /\ pc = "start"
    /\ Fetched(post(peer, fs, "listTools", JObj(Empty)))

\* Lines 63-75: the oracle answers without tool calls and run_chat returns.
OracleAnswers_Return(m) ==
    /\ m.tool_calls = <<>>
    /\ oracle_calls' = oracle_calls + 1
    /\ pc' = "returned"
    /\ outcome' = Returned(IF Truthy(m.content) THEN m.content.s ELSE <<>>)
    /\ UNCHANGED <<serverVars, resolveVars, raceVars, deriveVars, peer, oracle, tools, messages, round,
                   calls, idx, invoked, sent, reply>>

FinalAnswer ==
    /\ pc = "oracle"
    /\ round < MaxRounds
    /\ \E m \in OracleResponses(oracle, oracle_calls + 1) : OracleAnswers_Return(m)

\* Lines 63-78: the oracle requests tool calls; the assistant message is
\* appended.
Requested(m) ==
    /\ m.tool_calls # <<>>
    /\ oracle_calls' = oracle_calls + 1
    /\ messages' = Append(messages,
                          [role |-> "assistant",
                           content |-> IF Truthy(m.content) THEN m.content.s ELSE <<>>,
                           tool_calls |-> m.tool_calls])
    /\ calls' = m.tool_calls
    /\ idx' = 1
    /\ pc' = "tools"
    /\ UNCHANGED <<serverVars, resolveVars, raceVars, deriveVars, peer, oracle, tools, round, invoked,
                   sent, reply, outcome>>

RequestTools ==
    /\ pc = "oracle"
    /\ round < MaxRounds
    /\ \E m \in OracleResponses(oracle, oracle_calls + 1) : Requested(m)

\* Line 85 up to the response r of the server.
Posted(tc, args, r) ==
    /\ sent' = Append(sent, Sent("callTool", call_params(tc.function.name, args)))
    /\ reply' = [status |-> r.status, body |-> r.body]
    /\ fs' = r.fs
    /\ invoked' = invoked + 1
    /\ pc' = "awaiting"
    /\ UNCHANGED <<fs_before, req, resp, acc, raised, resolveVars, raceVars, deriveVars, peer, oracle, tools,
                   messages, round, calls, idx, oracle_calls, outcome>>

\* Lines 81-85 for the call tc: json.loads is outside the try statement, so
\* its exception leaves run_chat.
Parsed(tc, args) ==
    IF args.exc # "none"
    THEN /\ pc' = "raised"
         /\ outcome' = Raised(args)
         /\ UNCHANGED <<serverVars, resolveVars, raceVars, deriveVars, peer, oracle, tools, messages,
                        round, calls, idx, oracle_calls, invoked, sent, reply>>
    ELSE Posted(tc, args.value, mcp_call_tool(peer, fs, tc.function.name, args.value))

\* The calls of a round served from the last to the first.
InvokeTool_reversed ==
    /\ pc = "tools"
    /\ Parsed(calls[Len(calls) + 1 - idx],
              json_loads(arguments_or_empty(calls[Len(calls) + 1 - idx].function.arguments)))

\* `for tc in tool_calls`, lines 80-85
InvokeTool ==
    /\ pc = "tools"
    /\ Parsed(calls[idx], json_loads(arguments_or_empty(calls[idx].function.arguments)))

\* The round ended after the tool message of its first call.
AppendToolMessage_first_only ==
    /\ pc = "awaiting"
    /\ messages' = Append(messages, tool_message(calls[idx], mcp_jsonrpc(reply)))
    /\ idx' = idx + 1
    /\ pc' = "oracle"
    /\ round' = round + 1
    /\ UNCHANGED <<serverVars, resolveVars, raceVars, deriveVars, peer, oracle, tools, calls,
                   oracle_calls, invoked, sent, reply, outcome>>

\* The tool message written over the last message of the log.
AppendToolMessage_overwrite ==
    /\ pc = "awaiting"
    /\ messages' = [messages EXCEPT ![Len(messages)] =
                                        tool_message(calls[idx], mcp_jsonrpc(reply))]
    /\ idx' = idx + 1
    /\ pc' = IF idx < Len(calls) THEN "tools" ELSE "oracle"
    /\ round' = IF idx < Len(calls) THEN round ELSE round + 1
    /\ UNCHANGED <<serverVars, resolveVars, raceVars, deriveVars, peer, oracle, tools, calls,
                   oracle_calls, invoked, sent, reply, outcome>>

\* Lines 85-116 after the response: the tool message is appended; after the
\* last call of the round the next iteration of the for loop begins.
AppendToolMessage ==
    /\ pc = "awaiting"
    /\ messages' = Append(messages, tool_message(calls[idx], mcp_jsonrpc(reply)))
    /\ idx' = idx + 1
    /\ pc' = IF idx < Len(calls) THEN "tools" ELSE "oracle"
    /\ round' = IF idx < Len(calls) THEN round ELSE round + 1
    /\ UNCHANGED <<serverVars, resolveVars, raceVars, deriveVars, peer, oracle, tools, calls,
                   oracle_calls, invoked, sent, reply, outcome>>

\* Line 119
ReturnFallback ==
    /\ pc = "oracle"
    /\ round = MaxRounds
    /\ pc' = "returned"
    /\ outcome' = Returned(Fallback)
    /\ UNCHANGED <<serverVars, resolveVars, raceVars, deriveVars, peer, oracle, tools, messages, round,
                   calls, idx, oracle_calls, invoked, sent, reply>>

NextChat ==
    \/ FetchCatalog
    \/ FinalAnswer
    \/ RequestTools
    \/ InvokeTool
    \/ AppendToolMessage
    \/ ReturnFallback

SpecChat == InitChat /\ [][NextChat]_vars

\* run_chat is sequential code: it takes its next step whenever it has one.
FairChat == SpecChat /\ WF_vars(NextChat)

(***************************************************************************)
(* The derivation of the tool-message content on its own.                  *)
(***************************************************************************)
MaxParts == 3

PartKinds ==
    {TextPart(<<"a">>), TextPart(<<"b">>), TextPart(<<>>), [type |-> "text"],
     JsonPart(JObj([sum |-> JNum(3)])), JsonPart(JObj([ok |-> JBool(TRUE)])),
     JsonPart(JNull), [type |-> "blob"]}

PartLists == UNION {[1..n -> PartKinds] : n \in 0..MaxParts}

InitDerive ==
    /\ fs = PlainFs
    /\ ServerIdle
    /\ ResolveIdle
    /\ ChatIdle
    /\ result_parts \in PartLists
    /\ derived = NotDerived
    /\ RaceIdle

DeriveContent ==
    /\ derived = NotDerived
    /\ derived' = [done |-> TRUE, content |-> tool_content([content |-> result_parts])]
    /\ UNCHANGED <<serverVars, resolveVars, raceVars, chatVars, result_parts>>

SpecDerive == InitDerive /\ [][DeriveContent]_vars

(***************************************************************************)
(* Two delete_path calls handled at the same time.  The development server *)
(* of flask serves each request in a thread of its own and the handler     *)
(* takes no lock, so the filesystem calls of the two handlers interleave;  *)
(* each filesystem call is atomic.                                         *)
(***************************************************************************)
Handlers == {1, 2}

\* A sandbox holding the file f.txt, the empty directory e and the directory
\* d with the file g.bin in it.
RaceFs ==
    PlainFs @@ (Append(BASE_DIR, "f.txt") :> FileNode(<<"hi">>))
            @@ (Append(BASE_DIR, "e") :> DirNode)
            @@ (Append(BASE_DIR, "d") :> DirNode)
            @@ (BASE_DIR \o <<"d", "g.bin">> :> FileNode(<<"hi">>))

\* The arguments of the concurrent calls.
RaceArgs ==
    {[confirm |-> JBool(TRUE), path |-> p] : p \in {S("f.txt"), S("e"), S("d"), DG, S("x")}}
    \cup {[confirm |-> JBool(FALSE), path |-> S("f.txt")]}

\* The response of tools/call (id 1) when call_tool ended as t.
Answer(t) ==
    [status |-> except_clauses(tools_call_result(t, JNum(1)), JNum(1)).status,
     body |-> except_clauses(tools_call_result(t, JNum(1)), JNum(1)).body]

InitRace ==
    /\ fs = RaceFs
    /\ ServerIdle
    /\ ResolveIdle
    /\ ChatIdle
    /\ DeriveIdle
    /\ deleters \in [Handlers -> {[args |-> a, path |-> <<>>, pc |-> "start",
                                   resp |-> NoResponse, saw_dir |-> FALSE] : a \in RaceArgs}]

\* The handler i ends with the outcome t of call_tool.
Responds(i, t) ==
    /\ deleters' = [deleters EXCEPT ![i].pc = "done", ![i].resp = Answer(t)]
    /\ fs' = t.fs

\* Lines 370-373: the path is resolved and `confirm` is tested.
Resolved(i, r) ==
    IF r.exc # "none" THEN Responds(i, ToolErr(r.exc, r.msg, fs, {}))
    ELSE IF ~Flag(deleters[i].args, "confirm")
    THEN Responds(i, ToolErr("ValueError", <<"Refusing to delete without confirm=true">>,
                             fs, {}))
    ELSE /\ deleters' = [deleters EXCEPT ![i].pc = "exists", ![i].path = r.path]
         /\ UNCHANGED fs

DeleteStart(i) ==
    /\ deleters[i].pc = "start"
    /\ Resolved(i, PathArg(fs, deleters[i].args, "path"))
    /\ UNCHANGED <<fs_before, req, resp, acc, raised, resolveVars, chatVars, deriveVars>>

\* Lines 374-375: path.exists()
DeleteExists(i) ==
    /\ deleters[i].pc = "exists"
    /\ IF ~exists(fs, deleters[i].path) THEN Responds(i, ToolOk(fs, OkPayload, {}))
       ELSE /\ deleters' = [deleters EXCEPT ![i].pc = "is_dir"]
            /\ UNCHANGED fs
    /\ UNCHANGED <<fs_before, req, resp, acc, raised, resolveVars, chatVars, deriveVars>>

\* Line 376: path.is_dir()
DeleteIsDir(i) ==
    /\ deleters[i].pc = "is_dir"
    /\ deleters' = [deleters EXCEPT ![i].pc = "remove",
                                    ![i].saw_dir = is_dir(fs, deleters[i].path)]
    /\ UNCHANGED <<serverVars, resolveVars, chatVars, deriveVars>>

\* Lines 377-384: path.rmdir() inside its try statement, or path.unlink()
DeleteRemove(i) ==
    /\ deleters[i].pc = "remove"
    /\ IF deleters[i].saw_dir
       THEN Responds(i, delete_dir(fs, rmdir(fs, deleters[i].path)))
       ELSE Responds(i, Finish({}, unlink(fs, deleters[i].path)))
    /\ UNCHANGED <<fs_before, req, resp, acc, raised, resolveVars, chatVars, deriveVars>>

NextRace ==
    \E i \in Handlers :
        \/ DeleteStart(i)
        \/ DeleteExists(i)
        \/ DeleteIsDir(i)
        \/ DeleteRemove(i)

SpecRace == InitRace /\ [][NextRace]_vars

(***************************************************************************)
(* Properties.                                                             *)
(***************************************************************************)
\* p is the sandbox root or lies below it.
UnderRoot(p) ==
    /\ Len(p) >= Len(BASE_DIR)
    /\ \A i \in 1..Len(BASE_DIR) : p[i] = BASE_DIR[i]

\* p has no "." or ".." or empty component and runs through no symbolic link.
Canonical(f, p) ==
    /\ \A i \in 1..Len(p) : p[i] \notin {"..", ".", ""}
    /\ \A i \in 1..Len(p) : ~is_link(f, SubSeq(p, 1, i))

DotDotEtcPasswd == <<"..", Sep, "..", Sep, "etc", Sep, "passwd">>

\* C1: safe_join_under_base either returns a canonical path that is the
\* sandbox root or a descendant of it, or raises PermissionError; it never
\* returns a path outside the root, and "../../etc/passwd" is rejected.
C1_SandboxConfinement ==
    /\ joined.exc \in {"pending", "none", "PermissionError"}
    /\ joined.exc = "none" => UnderRoot(joined.path) /\ Canonical(fs, joined.path)
    /\ (joined.exc # "pending" /\ user_path = DotDotEtcPasswd) => joined.exc = "PermissionError"

\* The call on "../../etc/passwd" was made and raised.
C1_Witness == user_path = DotDotEtcPasswd /\ joined.exc = "PermissionError"

HasBody == "body" \in DOMAIN resp

\* The file contents (texts and encoded blobs) the response returns.
ReturnedData ==
    IF ~HasBody \/ "result" \notin DOMAIN resp.body THEN {}
    ELSE IF "content" \in DOMAIN resp.body.result
    THEN UNION {{resp.body.result.content[i].json.o[k].s :
                    k \in DOMAIN resp.body.result.content[i].json.o \cap {"text", "blob_b64"}} :
                i \in {j \in 1..Len(resp.body.result.content) :
                          resp.body.result.content[j].type = "json"}}
    ELSE IF "contents" \in DOMAIN resp.body.result
    THEN UNION {{resp.body.result.contents[i][k] :
                    k \in DOMAIN resp.body.result.contents[i] \cap {"text", "blob"}} :
                i \in 1..Len(resp.body.result.contents)}
    ELSE {}

\* C2: after any sequence of requests the part of the filesystem outside
\* the sandbox root is as it was, the handler of the last request created,
\* changed, removed or read nothing outside the root, and its response
\* returns no content of the file outside the root.
C2_OutsideUntouched ==
    /\ Outside(fs) = Outside0
    /\ \A p \in acc : UnderRoot(p)
    /\ ReturnedData \cap {Secret, b64encode(Secret)} = {}

\* A write_file aimed at /etc/passwd through ".." segments, with
\* make_parents, was served and refused.
C2_Witness ==
    /\ req = Call("write_file", [make_parents |-> MkP, path |-> Escape, text |-> Hi])
    /\ resp.status = 403

\* C9: every response of mcp_endpoint holds exactly one of the members
\* `result` and `error`, and an `error` holds a code and a message.
C9_ResultXorError ==
    resp # NoResponse =>
        /\ HasBody
        /\ ("result" \in DOMAIN resp.body) # ("error" \in DOMAIN resp.body)
        /\ "error" \in DOMAIN resp.body => DOMAIN resp.body.error = {"code", "message"}

\* A request for a method outside the routing table was answered with an
\* error response.
C9_Witness ==
    /\ req = Request("listTools", JObj(Empty))
    /\ HasBody /\ "error" \in DOMAIN resp.body /\ "result" \notin DOMAIN resp.body

\* C10: no exception leaves mcp_endpoint: whenever the try block raised, the
\* response is a JSON-RPC error envelope, and the dispatcher can serve a
\* next request.
C10_ExceptionsConverted ==
    /\ "raised" \notin DOMAIN resp
    /\ raised # "none" => HasBody /\ "error" \in DOMAIN resp.body /\ resp.status >= 400
    /\ ENABLED ServeInitialize

\* tools/call with params that are no object raised inside the handler and
\* was answered with an error envelope.
C10_Witness ==
    /\ req = Request("tools/call", JList(<<JNum(1)>>))
    /\ raised = "AttributeError"
    /\ HasBody /\ "error" \in DOMAIN resp.body

Terminated == pc \in {"returned", "raised"}

\* The messages of the log with the role r, in order.
WithRole(r) == SelectSeq(messages, LAMBDA m : m.role = r)

RECURSIVE Flatten(_)
Flatten(ss) == IF ss = <<>> THEN <<>> ELSE Head(ss) \o Flatten(Tail(ss))

\* The tool calls the oracle requested so far, in order.
RequestedCalls == Flatten([i \in 1..Len(WithRole("assistant")) |-> WithRole("assistant")[i].tool_calls])

\* The callTool requests sent so far, in order.
Invocations == SelectSeq(sent, LAMBDA q : q.method = "callTool")

\* C3: under an oracle that requests tool calls in every response, run_chat
\* makes exactly 8 oracle calls, serves the tool calls of all 8 rounds, and
\* returns the fallback message; it never makes a 9th oracle call.
C3_EightRounds ==
    /\ oracle_calls <= 8
    /\ (oracle = "always" /\ Terminated) =>
          /\ outcome = Returned(Fallback)
          /\ oracle_calls = 8
          /\ Len(WithRole("tool")) = Len(RequestedCalls)

\* C4: when the first oracle response carries no tool calls, run_chat makes
\* one oracle call and no tool invocation, leaves the log at the seeded
\* system and user messages, and returns the content of the oracle.
C4_DirectAnswer ==
    (oracle = "direct" /\ Terminated) =>
        /\ pc = "returned"
        /\ outcome.value \in {<<"done">>, <<>>}
        /\ oracle_calls = 1
        /\ invoked = 0
        /\ messages = <<[role |-> "system", content |-> System],
                        [role |-> "user", content |-> Prompt]>>

\* C5: the tool calls of a round are invoked one at a time in the order the
\* oracle returned them: the requests sent follow the requested calls in
\* order, a call is sent only when every earlier call has its tool message
\* in the log, and the tool messages follow the requested calls in order,
\* each with the identifier of its call.
C5_CallsInOrder ==
    /\ Len(WithRole("tool")) <= Len(RequestedCalls)
    /\ \A j \in 1..Len(WithRole("tool")) :
          /\ WithRole("tool")[j].tool_call_id = RequestedCalls[j].id
          /\ WithRole("tool")[j].name = RequestedCalls[j].function.name
    /\ Len(Invocations) <= Len(RequestedCalls)
    /\ \A j \in 1..Len(Invocations) :
          Invocations[j].params.o.toolName = S(RequestedCalls[j].function.name)
    /\ Len(Invocations) = Len(WithRole("tool")) + (IF pc = "awaiting" THEN 1 ELSE 0)
    /\ pc \in {"tools", "awaiting"} =>
          /\ idx \in 1..Len(calls)
          /\ messages[Len(messages) - (idx - 1)].role = "assistant"
          /\ messages[Len(messages) - (idx - 1)].tool_calls = calls

\* A round of four calls was served to its end.
C5_Witness ==
    /\ pc = "oracle"
    /\ Len(calls) = 4
    /\ Len(messages) >= 7
    /\ messages[Len(messages)].tool_call_id = CallId(oracle_calls, 4)
    /\ messages[Len(messages) - 3].tool_call_id = CallId(oracle_calls, 1)

\* The response to the request sent last is a failure.
ReplyFailed == reply.status >= 400 \/ "error" \in DOMAIN reply.body

\* C6: no failure while serving a requested tool call ends run_chat: once
\* the oracle has requested tool calls run_chat raises nothing, and the tool
\* message of a failed call holds {"error": message} under the identifier
\* of the call.
C6_FailuresDowngraded ==
    /\ pc = "raised" => oracle_calls = 0
    /\ (pc \in {"tools", "oracle"} /\ idx > 1 /\ ReplyFailed) =>
          /\ messages[Len(messages)].role = "tool"
          /\ messages[Len(messages)].tool_call_id = calls[idx - 1].id
          /\ messages[Len(messages)].content[1] = "json.dumps"
          /\ DOMAIN messages[Len(messages)].content[2].o = {"error"}

\* The ordered parts of the tool result that are Json parts.
JsonParts == SelectSeq(result_parts, LAMBDA q : q.type = "json" /\ "json" \in DOMAIN q)

\* The texts of the Text parts of the tool result, in order.
Texts(ps) == [i \in 1..Len(ps) |-> IF "text" \in DOMAIN ps[i] THEN ps[i].text ELSE <<>>]
TextParts == Texts(SelectSeq(result_parts, LAMBDA q : q.type = "text"))

\* C7 as stated: the serialization of the first Json part when there is
\* one; otherwise all Text parts, in order, joined with newlines.
C7_FirstJsonElseAllTexts ==
    derived.done =>
        derived.content = IF JsonParts # <<>> THEN json_dumps(JsonParts[1].json)
                          ELSE join_lines(TextParts)

\* C7: the tool-message content is the serialization of the last Json part
\* when there is a Json part and the last one is not null; otherwise it is
\* the non-empty Text parts, in order, joined with newlines.
C7_LastJsonElseNonEmptyTexts ==
    derived.done =>
        derived.content =
            IF JsonParts # <<>> /\ JsonParts[Len(JsonParts)].json # JNull
            THEN json_dumps(JsonParts[Len(JsonParts)].json)
            ELSE join_lines(SelectSeq(TextParts, LAMBDA t : t # <<>>))

\* The content was derived from a text, a Json part, an empty text and a
\* second Json part.
C7_Witness ==
    /\ derived.done
    /\ Len(result_parts) = 3
    /\ result_parts[1] = JsonPart(JObj([sum |-> JNum(3)]))
    /\ result_parts[2] = TextPart(<<>>)
    /\ result_parts[3] = JsonPart(JObj([ok |-> JBool(TRUE)]))

\* C8: run_chat fetches the catalog once, before the first oracle call, with
\* the method tools/list, and invokes tools with tools/call: every method it
\* sends is in the routing table of mcp_endpoint and no response is
\* MethodNotFound (-32601).
C8_MethodsRouted ==
    /\ \A i \in 1..Len(sent) : sent[i].method \in Methods
    /\ \A i \in 1..Len(sent) : (sent[i].method = "tools/list") = (i = 1)
    /\ \A i \in 2..Len(sent) : sent[i].method = "tools/call"
    /\ oracle_calls > 0 => sent # <<>>
    /\ ("body" \in DOMAIN reply /\ "error" \in DOMAIN reply.body) =>
          reply.body.error.code # -32601

(***************************************************************************)
(* The error classes of the dispatcher.                                    *)
(***************************************************************************)
IsError == HasBody /\ "error" \in DOMAIN resp.body

\* The code of the error response, 0 when the response is no error.
ErrorCode == IF IsError THEN resp.body.error.code ELSE 0

\* The response reports a missing target: the file of read_file, the
\* resource of resources/read or the source of move_path.
MissingTarget ==
    /\ IsError
    /\ resp.body.error.message \in
           {<<"File not found">>, <<"Resource not found">>, <<"Source not found">>}

\* C11: the code of an error response identifies its class: the
\* sandbox-violation code -32001 is returned exactly when the path resolved
\* outside the root, and every missing target (read_file, resources/read,
\* move_path) is answered with the not-found code -32002, which no other
\* failure uses and which differs from the generic code -32000.
C11_CodesIdentifyClass ==
    /\ ErrorCode = -32001 <=> raised = "PermissionError"
    /\ ErrorCode = -32002 <=> MissingTarget

\* The decoded body of the request is no JSON object.
NonObjectBody == req.raw = "json" /\ req.body.t # "obj"

\* The body is an object whose method is none of the routed ones.
UnroutedMethod ==
    /\ req.raw = "json" /\ req.body.t = "obj"
    /\ \A m \in Methods : ~IsMethod(Get(req.body.o, "method", JNull), m)

\* C12: a body that is no JSON object is answered with -32600 and a method
\* outside the routing table (a missing one included) with -32601; in both
\* cases the handler touched no path, returned no result and left the
\* filesystem as it was.
C12_InvalidRequestAndMethodNotFound ==
    /\ NonObjectBody => ErrorCode = -32600
    /\ UnroutedMethod => ErrorCode = -32601
    /\ (NonObjectBody \/ UnroutedMethod) =>
           fs = fs_before /\ acc = {} /\ "result" \notin DOMAIN resp.body

\* A body without a method was refused on a sandbox that earlier requests
\* had filled.
C12_Witness ==
    /\ req = [body |-> JObj(Empty), raw |-> "json"]
    /\ ErrorCode = -32601
    /\ fs \notin InitFs

\* C13: a request whose payload cannot be decoded as JSON is answered with
\* the ParseError code -32700, not with the generic code -32000.
C13_MalformedIsParseError ==
    req.raw = "malformed" => ErrorCode = -32700

\* The request is a tools/call with object params.
IsToolsCall ==
    /\ req.raw = "json" /\ req.body.t = "obj"
    /\ IsMethod(Get(req.body.o, "method", JNull), "tools/call")
    /\ OrEmpty(Get(req.body.o, "params", JObj(Empty))).t = "obj"

\* The tool name and the arguments the dispatcher takes from the request.
CalledName == tool_name_of(OrEmpty(Get(req.body.o, "params", JObj(Empty))).o)
CalledArgs ==
    OrEmpty(Get(OrEmpty(Get(req.body.o, "params", JObj(Empty))).o, "arguments", JObj(Empty)))

\* The request calls the tool n.
Calls(n) == IsToolsCall /\ IsTool(CalledName, n)

\* The request names no tool of the catalog.
UnknownToolCall ==
    IsToolsCall /\ \A i \in 1..Len(ToolNames) : ~IsTool(CalledName, ToolNames[i])

\* C14: a tools/call naming no tool of the catalog (a missing, empty or
\* non-string name included) is answered with an error envelope of exactly
\* the members jsonrpc, error {code, message} and id, the id being the one of
\* the request; no exception leaves the handler and the filesystem is as
\* before.
C14_UnknownToolEnvelope ==
    UnknownToolCall =>
        /\ HasBody
        /\ DOMAIN resp.body = {"jsonrpc", "error", "id"}
        /\ DOMAIN resp.body.error = {"code", "message"}
        /\ resp.body.id = Get(req.body.o, "id", JNull)
        /\ fs = fs_before

\* A call with an empty tool name was refused on a sandbox holding f.txt.
C14_Witness ==
    /\ req = Request("tools/call", JObj([arguments |-> JObj(Empty), name |-> JStr(<<>>)]))
    /\ IsError /\ resp.body.id = JNum(1)
    /\ Append(BASE_DIR, "f.txt") \in DOMAIN fs

\* The dict o with its key `from` renamed to `to`.
Renamed(o, from, to) ==
    [k \in (DOMAIN o \ {from}) \cup {to} |-> IF k = to THEN o[from] ELSE o[k]]

\* The params of a tools/call that names its tool under exactly one of the
\* keys "name" and "toolName".
ParamsOf(r) == OrEmpty(Get(r.body.o, "params", JObj(Empty))).o
NamedUnder(k) ==
    IsToolsCall /\ DOMAIN ParamsOf(req) \cap {"name", "toolName"} = {k}

\* The request r with its tool name moved from the key `from` to `to`.
WithNameKey(r, from, to) ==
    [r EXCEPT !.body.o.params.o = Renamed(ParamsOf(r), from, to)]

\* The response and the filesystem are those mcp_endpoint produces for r
\* on the filesystem the served request started from.
SameOutcomeAs(r) ==
    /\ HasBody
    /\ resp = [status |-> mcp_endpoint(fs_before, r).status,
               body |-> mcp_endpoint(fs_before, r).body]
    /\ fs = mcp_endpoint(fs_before, r).fs

\* C15 as stated: for every tool name and every arguments, the request
\* naming the tool under "toolName" has the response and the resulting
\* filesystem of the request naming it under "name".
C15_LegacyAliasEquivalent ==
    /\ NamedUnder("name") => SameOutcomeAs(WithNameKey(req, "name", "toolName"))
    /\ NamedUnder("toolName") => SameOutcomeAs(WithNameKey(req, "toolName", "name"))

\* C15, amended: the two forms have the same response and the same
\* resulting filesystem for every tool name that is truthy in Python (not
\* the empty string, null, false, 0 nor an empty container).
C15_LegacyAliasEquivalentForNames ==
    /\ (NamedUnder("name") /\ Truthy(ParamsOf(req).name)) =>
           SameOutcomeAs(WithNameKey(req, "name", "toolName"))
    /\ (NamedUnder("toolName") /\ Truthy(ParamsOf(req).toolName)) =>
           SameOutcomeAs(WithNameKey(req, "toolName", "name"))

\* A write_file named under "name" changed the filesystem, as its legacy
\* form does.
C15_Witness ==
    /\ NamedUnder("name") /\ Calls("write_file")
    /\ resp.status = 200 /\ fs # fs_before
    /\ SameOutcomeAs(WithNameKey(req, "name", "toolName"))

\* C16: a delete_path whose `confirm` is absent or anything but the boolean
\* true fails (with the validation error, or with the refusal of its path)
\* and leaves the filesystem as it was.
C16_DeleteNeedsBooleanTrue ==
    (Calls("delete_path") /\ CalledArgs.t = "obj"
         /\ Get(CalledArgs.o, "confirm", JNull) # JBool(TRUE)) =>
        /\ raised \in {"ValueError", "TypeError", "PermissionError"}
        /\ IsError
        /\ fs = fs_before

\* The path the served tool call names under the key k, resolved on the
\* filesystem the call started from.
CalledPath(k) == PathArg(fs_before, CalledArgs.o, k)

\* The served request is a confirmed delete_path of a directory that held
\* at least one entry.
DeletesNonEmptyDir ==
    /\ Calls("delete_path") /\ CalledArgs.t = "obj"
    /\ Flag(CalledArgs.o, "confirm")
    /\ CalledPath("path").exc = "none"
    /\ exists(fs_before, CalledPath("path").path)
    /\ is_dir(fs_before, CalledPath("path").path)
    /\ Children(fs_before, CalledPath("path").path) # {}

\* The codes of the other error classes: generic, sandbox violation, not
\* found, and the reserved JSON-RPC ones.
OtherClassCodes == {-32000, -32001, -32002, -32600, -32601, -32602, -32700}

\* C17: a confirmed delete_path of a directory with at least one entry
\* fails with an error whose code is none of the codes of the other
\* classes, and the filesystem (the directory and all beneath it) is as
\* before.
C17_NonEmptyDirConflict ==
    DeletesNonEmptyDir =>
        /\ IsError
        /\ ErrorCode \notin OtherClassCodes
        /\ fs = fs_before

\* The served request is a delete_path with confirm = true.
ConfirmedDelete ==
    /\ Calls("delete_path") /\ CalledArgs.t = "obj"
    /\ Get(CalledArgs.o, "confirm", JNull) = JBool(TRUE)

\* The response is the success of a mutating tool.
OkResponse ==
    /\ HasBody /\ resp.status = 200
    /\ resp.body = jsonrpc_result([content |-> OkPayload], Get(req.body.o, "id", JNull))

\* C18: a confirmed delete_path of a path inside the sandbox that does not
\* exist succeeds and changes nothing; and when a confirmed delete_path
\* succeeded, the same request served again succeeds with the same response
\* and leaves the filesystem as the first one left it.
C18_DeleteIdempotent ==
    /\ (ConfirmedDelete /\ CalledPath("path").exc = "none"
            /\ ~exists(fs_before, CalledPath("path").path)) =>
           OkResponse /\ fs = fs_before
    /\ (ConfirmedDelete /\ OkResponse) =>
           /\ mcp_endpoint(fs, req).exc = "none"
           /\ mcp_endpoint(fs, req).status = 200
           /\ mcp_endpoint(fs, req).body = resp.body
           /\ mcp_endpoint(fs, req).fs = fs

\* f.txt existed and a confirmed delete_path removed it.
C18_Witness ==
    /\ req = Delete(S("f.txt"), JBool(TRUE))
    /\ OkResponse
    /\ Append(BASE_DIR, "f.txt") \in DOMAIN fs_before
    /\ Append(BASE_DIR, "f.txt") \notin DOMAIN fs

\* The served request is write_file(p, t, make_parents = true) for a string
\* t and a path p inside the sandbox that is classified as text, p being no
\* directory and no ancestor of p being a file.
WritesTextFile ==
    /\ Calls("write_file") /\ CalledArgs.t = "obj"
    /\ Get(CalledArgs.o, "make_parents", JNull) = JBool(TRUE)
    /\ Get(CalledArgs.o, "text", JStr(<<>>)).t = "str"
    /\ CalledPath("path").exc = "none"
    /\ is_texty(guess_type(Name(CalledPath("path").path)), Name(CalledPath("path").path))
    /\ ~is_dir(fs_before, CalledPath("path").path)
    /\ mkdir_p(fs_before, Parent(CalledPath("path").path)).exc = "none"

\* read_file of the path the served request names, served next.
ReadBack == mcp_endpoint(fs, Call("read_file", [path |-> CalledArgs.o.path]))

\* C19: write_file(p, t, make_parents = true) on a text-classified path
\* succeeds, and read_file(p) served right after it succeeds and returns a
\* text equal to t, whatever p held before (a second write replaces).
C19_WriteThenReadRoundTrip ==
    WritesTextFile =>
        /\ OkResponse
        /\ ReadBack.exc = "none" /\ ReadBack.status = 200
        /\ ReadBack.body.result.content[1].json.o.text = CalledArgs.o.text

\* The tools that change the filesystem.
MutatingTools == {"write_file", "append_file", "make_dirs", "move_path", "delete_path"}

\* The served call failed on a check of its arguments: its path resolved
\* outside the root (PermissionError), or an argument was missing,
\* mistyped or unconfirmed (TypeError, ValueError).
FailedValidation ==
    /\ \E n \in MutatingTools : Calls(n)
    /\ IsError
    /\ raised \in {"PermissionError", "TypeError", "ValueError"}

\* C20: a call of a mutating tool that fails with a sandbox violation or a
\* validation error leaves the filesystem exactly as it was before the
\* call, make_parents = true included.
C20_ChecksBeforeMutation ==
    FailedValidation => fs = fs_before

\* The served request is a list_dir of a directory that exists inside the
\* sandbox.
ListsDir ==
    /\ Calls("list_dir") /\ CalledArgs.t = "obj"
    /\ CalledPath("path").exc = "none"
    /\ is_dir(fs_before, CalledPath("path").path)

\* The entries of the response of a list_dir.
ListedEntries == resp.body.result.content[1].json.o.entries.l

\* The paths list_dir has to report: the direct children of d, or with
\* recursive = true everything below d.
ExpectedPaths(d) ==
    IF Flag(CalledArgs.o, "recursive") THEN {q \in DOMAIN fs_before : InParents(d, q)}
    ELSE {q \in DOMAIN fs_before : Len(q) = Len(d) + 1 /\ IsPrefix(d, q)}

\* C21: list_dir of an existing directory d succeeds and reports exactly the
\* direct children of d (recursive = false) or exactly the paths of the
\* subtree below d (recursive = true), one entry each, named relative to d;
\* an entry reported as a directory has size 0, a regular file has its
\* length, and d itself is not among the entries.
C21_ListDirExact ==
    ListsDir =>
        /\ HasBody /\ resp.status = 200 /\ fs = fs_before
        /\ {ListedEntries[i].o.name.s : i \in 1..Len(ListedEntries)}
               = {relative_to(q, CalledPath("path").path) :
                      q \in ExpectedPaths(CalledPath("path").path)}
        /\ Len(ListedEntries) = Cardinality(ExpectedPaths(CalledPath("path").path))
        /\ \A i \in 1..Len(ListedEntries) :
               /\ ListedEntries[i].o.is_dir.b => ListedEntries[i].o.size.n = 0
               /\ ListedEntries[i].o.name.s # <<".">>
        /\ \A q \in ExpectedPaths(CalledPath("path").path) :
               \E i \in 1..Len(ListedEntries) :
                   /\ ListedEntries[i].o.name.s = relative_to(q, CalledPath("path").path)
                   /\ ListedEntries[i].o.is_dir.b = (fs_before[q].kind # "file")
                   /\ is_file(fs_before, q) =>
                          ListedEntries[i].o.size.n = Len(fs_before[q].text)

\* The sandbox root holding the directory d with a file in it was listed
\* without recursion: d is reported, the file in d is not.
C21_Witness ==
    /\ req = Call("list_dir", [path |-> JStr(<<>>), recursive |-> JBool(FALSE)])
    /\ resp.status = 200
    /\ \E n \in {"g.bin", "f.txt"} : BASE_DIR \o <<"d", n>> \in DOMAIN fs
    /\ \E i \in 1..Len(ListedEntries) : ListedEntries[i].o.name.s = <<"d">>

\* The `numbers` argument of the served add_numbers call.
Numbers == Get(CalledArgs.o, "numbers", JNull)

\* `numbers` is missing, no array, empty, or holds an element that is no
\* JSON number.
InvalidNumbers ==
    \/ Numbers.t # "list"
    \/ Numbers.l = <<>>
    \/ \E i \in 1..Len(Numbers.l) : Numbers.l[i].t # "num"

RECURSIVE SumOfNumbers(_)
SumOfNumbers(l) == IF l = <<>> THEN 0 ELSE Head(l).n + SumOfNumbers(Tail(l))

\* C22: add_numbers fails with a validation error exactly when `numbers` is
\* missing, no array, empty or holds an element that is no number; otherwise
\* it returns the sum of the elements.
C22_AddNumbersValidation ==
    (Calls("add_numbers") /\ CalledArgs.t = "obj") =>
        IF InvalidNumbers
        THEN IsError /\ raised = "ValueError"
        ELSE /\ HasBody /\ resp.status = 200
             /\ resp.body.result.content[2].json = JObj([sum |-> JNum(SumOfNumbers(Numbers.l))])

\* The served request is a resources/read with object params.
IsResourcesRead ==
    /\ req.raw = "json" /\ req.body.t = "obj"
    /\ IsMethod(Get(req.body.o, "method", JNull), "resources/read")
    /\ OrEmpty(Get(req.body.o, "params", JObj(Empty))).t = "obj"

\* The `uri` of the served resources/read, null when missing.
Uri == Get(ParamsOf(req), "uri", JNull)

\* The URI is a string of the file:// scheme.
FileScheme == Uri.t = "str" /\ Uri.s # <<>> /\ Head(Uri.s) = "file://"

\* What follows the scheme, resolved by the sandbox resolver on the
\* filesystem the request started from.
ReadTarget == safe_join_under_base(fs_before, Tail(Uri.s))

\* C23: resources/read changes nothing; a URI that is missing or not of the
\* file:// scheme is refused with -32602 and no path is touched; what
\* follows the scheme goes through the sandbox resolver, so a path escaping
\* the root is refused with -32001 and no path is touched; a target that is
\* missing or no regular file yields -32002; otherwise the content of the
\* resolved file, which lies under the root, is returned, and no response
\* returns the content of the file outside the root.
C23_ResourcesReadConfined ==
    IsResourcesRead =>
        /\ fs = fs_before
        /\ ReturnedData \cap {Secret, b64encode(Secret)} = {}
        /\ ~FileScheme => ErrorCode = -32602 /\ acc = {}
        /\ FileScheme =>
               /\ ReadTarget.exc \in {"none", "PermissionError"}
               /\ ReadTarget.exc = "PermissionError" => ErrorCode = -32001 /\ acc = {}
               /\ (ReadTarget.exc = "none" /\ ~is_file(fs_before, ReadTarget.path)) =>
                      ErrorCode = -32002 /\ acc = {}
               /\ (ReadTarget.exc = "none" /\ is_file(fs_before, ReadTarget.path)) =>
                      /\ resp.status = 200 /\ ~IsError
                      /\ UnderRoot(ReadTarget.path) /\ acc = {ReadTarget.path}
                      /\ ReturnedData \subseteq
                             {read_text(fs_before[ReadTarget.path].text),
                              b64encode(fs_before[ReadTarget.path].text)}

\* A URI whose path climbs out of the root was refused as a sandbox
\* violation, on a sandbox earlier requests had filled.
C23_Witness ==
    /\ IsResourcesRead /\ Uri = FileUri(Escape.s)
    /\ ErrorCode = -32001
    /\ fs \notin InitFs

\* run_chat ends, whatever the oracle and the server answer.
ChatTerminates == <>Terminated

\* C24: run_chat makes at most 8 oracle calls and ends in one of two ways,
\* returning the content of the oracle (Final) or returning the fallback
\* message once the 8 rounds are used (RoundLimitExceeded); it never ends
\* by raising.
C24_FinalOrRoundLimit ==
    /\ oracle_calls <= MaxRounds
    /\ pc # "raised"
    /\ pc = "returned" =>
           \/ outcome = Returned(Fallback) /\ oracle_calls = MaxRounds
           \/ outcome.kind = "returned" /\ outcome.value \in {<<"done">>, <<>>}

\* The log run_chat starts from (lines 56-59).
SeededLog ==
    <<[role |-> "system", content |-> System], [role |-> "user", content |-> Prompt]>>

\* C25: every step of run_chat leaves the log as it was or adds messages at
\* its end: the messages already in the log keep their place and their
\* content; and a log that exists begins with the seeded system and user
\* messages.
C25_LogAppendOnly ==
    [][/\ Len(messages') >= Len(messages)
       /\ SubSeq(messages', 1, Len(messages)) = messages
       /\ messages' # <<>> =>
              Len(messages') >= 2 /\ SubSeq(messages', 1, 2) = SeededLog]_vars

\* The log holds the seed, an assistant message with two calls and the
\* tool message of its first call.
C25_Witness ==
    /\ Len(messages) = 4
    /\ SubSeq(messages, 1, 2) = SeededLog
    /\ messages[3].role = "assistant" /\ Len(messages[3].tool_calls) >= 2
    /\ messages[4].role = "tool"

\* The positions of the log holding a message of the role r.
Positions(r) == {i \in 1..Len(messages) : messages[i].role = r}

\* The positions of the tool messages carrying the identifier id.
Answers(id) == {j \in Positions("tool") : messages[j].tool_call_id = id}

\* The position j lies after the assistant message at a and before the next
\* assistant message.
InTurnOf(a, j) == a < j /\ \A b \in Positions("assistant") : ~(a < b /\ b < j)

\* run_chat is about to call the oracle (line 63).
CallsOracle == pc = "oracle" /\ round < MaxRounds

\* C26: whenever run_chat calls the oracle, every tool call of every
\* assistant message of the log has exactly one tool message with its
\* identifier, placed after that assistant message and before the next one,
\* and every tool message carries an identifier that an earlier assistant
\* message requested.
C26_WellFormedAtOracleCall ==
    CallsOracle =>
        /\ \A a \in Positions("assistant") :
               \A k \in 1..Len(messages[a].tool_calls) :
                   /\ Cardinality(Answers(messages[a].tool_calls[k].id)) = 1
                   /\ \A j \in Answers(messages[a].tool_calls[k].id) : InTurnOf(a, j)
        /\ \A j \in Positions("tool") :
               \E a \in Positions("assistant") :
                   /\ a < j
                   /\ \E k \in 1..Len(messages[a].tool_calls) :
                          messages[a].tool_calls[k].id = messages[j].tool_call_id

\* The oracle is called for the third time, after two rounds of tool calls.
C26_Witness ==
    /\ CallsOracle
    /\ oracle_calls = 2
    /\ Cardinality(Positions("assistant")) = 2
    /\ Cardinality(Positions("tool")) >= 3

\* The served request is a move_path whose paths lie inside the sandbox and
\* whose source does not exist.
MovesMissingSource ==
    /\ Calls("move_path") /\ CalledArgs.t = "obj"
    /\ CalledPath("src").exc = "none" /\ CalledPath("dst").exc = "none"
    /\ ~exists(fs_before, CalledPath("src").path)

\* C27: a move_path whose source does not exist fails and leaves the
\* filesystem as it was, whatever make_parents is: no parent directory of
\* the destination is created.
C27_MissingSourceNoEffect ==
    MovesMissingSource => IsError /\ fs = fs_before

\* The URIs the served request listed: those of resources/list, and those of
\* the list_dir entries that are regular files.
ListedUris ==
    IF ~HasBody \/ "result" \notin DOMAIN resp.body THEN {}
    ELSE IF "resources" \in DOMAIN resp.body.result
    THEN {resp.body.result.resources[i].uri : i \in 1..Len(resp.body.result.resources)}
    ELSE IF Calls("list_dir")
    THEN {ListedEntries[i].o.uri.s :
              i \in {j \in 1..Len(ListedEntries) : ~ListedEntries[j].o.is_dir.b}}
    ELSE {}

\* resources/read of the URI u, served next.
ReadOf(u) == mcp_endpoint(fs, Request("resources/read", JObj([uri |-> JStr(u)])))

\* C28: every URI returned by resources/list, and every URI of a list_dir
\* entry that is a regular file, passed unchanged to resources/read right
\* after, is answered with the content of a file.
C28_ListedUrisReadable ==
    \A u \in ListedUris :
        /\ ReadOf(u).exc = "none" /\ ReadOf(u).status = 200
        /\ "result" \in DOMAIN ReadOf(u).body

\* C29: after any sequence of requests the sandbox root exists and is a
\* directory: no delete_path and no move_path removes or replaces it.
C29_RootPersists ==
    is_dir(fs, BASE_DIR)

\* The two handlers serve confirmed delete_path calls for the same path,
\* which was a file or an empty directory when they started.
SameTarget ==
    /\ deleters # <<>>
    /\ deleters[1].args = deleters[2].args
    /\ Flag(deleters[1].args, "confirm")
    /\ deleters[1].args.path \in {S("f.txt"), S("e")}

BothDone == \A i \in Handlers : deleters[i].pc = "done"

\* C30: when two confirmed delete_path calls for the same existing file or
\* empty directory are handled concurrently, then under every interleaving
\* of their filesystem calls both are answered with success and the path is
\* absent afterwards.
C30_ConcurrentDeletesSucceed ==
    (SameTarget /\ BothDone) =>
        /\ \A i \in Handlers :
               deleters[i].resp.status = 200 /\ "result" \in DOMAIN deleters[i].resp.body
        /\ \A i \in Handlers : ~exists(fs, deleters[i].path)

====
